---- MODULE Spec2Model ----
(***************************************************************************)
(* A model of the portfolio monitor's realtime pipeline:                   *)
(*   - OKXWebSocketClient (src/okx/ws_client.py): one connector task per   *)
(*     account: connect, login, subscribe, receive loop, reconnect;        *)
(*   - WebSocketManager (src/api/websocket.py): the cache of balances,     *)
(*     positions and pending orders, the list of frontend clients, the     *)
(*     replay on connect and the broadcast pass;                           *)
(*   - the snapshot sampler and its SQLite store                           *)
(*     (src/scheduler/snapshot_task.py, src/db/models.py, database.py).    *)
(*                                                                         *)
(* Every action is one run of a coroutine from one suspension point (an    *)
(* await that can yield to the event loop) to the next: asyncio runs such  *)
(* a stretch without interleaving, and may run any other ready task        *)
(* between two stretches.                                                  *)
(***************************************************************************)
EXTENDS Integers, Sequences, FiniteSets, TLC

\* ------------------------------------------------------------------ bounds

\* Accounts of config.ACCOUNTS and frontend websockets, as small sets.
Accounts == {"a1", "a2"}

Observers == {"o1", "o2"}

\* Upstream data messages handled over a whole behaviour.
MaxEvents == 3

\* Currency rows ("details") of one balance event.
MaxDetails == 2

\* Items of one positions event or of one orders event.
MaxItems == 2

\* Summary rows inserted over a whole behaviour.
MaxSaves == 2

\* Accounts configured for the sampler (len(ACCOUNTS)).
MaxAccounts == 6

\* Upstream data messages handled over a behaviour in which the connectors
\* can also be stopped, or in which events of every shape meet an observer.
MaxIsolEvents == 2

VARIABLES
    \* WebSocketManager
    clients,         \* self._clients: list of frontend websockets
    balances,        \* self._balances: dict account_id -> balance_info
    positions,       \* self._positions: dict account_id -> list of positions
    pending_orders,  \* self._pending_orders: dict account_id -> dict order_id -> order
    bc,              \* per account: the broadcast() pass its connector task is in
    rp,              \* per observer: where connect()/_send_cached_data() is
    chan,            \* per observer: state of its websocket
    recv,            \* per observer: the messages its websocket has carried (history)
    tracing,         \* whether recv is recorded in this behaviour
    nEvents,         \* per account: callbacks invoked so far (history)
    lastEvent,       \* per account: the last balance event applied and how many were (history)
    \* OKXWebSocketClient, per account
    pc,              \* where connect() is
    running,         \* self._running
    ws,              \* transport of the current session
    selfWs,          \* self._ws: "none", "current" (this session's), "stale"
    stopReq,         \* disconnect() was called (history)
    ended,           \* how the account's last session ended (history)
    hb,              \* the _ping_loop tasks of the account that have not finished,
                     \* and where connect() was when the last "ping" was written
    \* the snapshot store and the sampler
    db,              \* the connection's view of the two tables (uncommitted work included)
    committed,       \* the tables as of the last commit
    nextId,          \* AUTOINCREMENT of balance_snapshots
    now,             \* the wall clock, as an index into Times
    task,            \* per sampler task: where _collect_snapshot / save_snapshot is
    cleaner,         \* where cleanup_old_snapshots is
    reader,          \* where get_snapshots_with_currencies is
    lastRead,        \* what the last get_snapshots_with_currencies returned (history)
    saved,           \* per summary row id: the snapshot submitted by the INSERT that
                     \* made the row, and the clock's reading then (history)
    raised,          \* ids of the summary rows whose save_snapshot raised (history)
    \* the scheduler and the application's lifespan
    nAccounts,       \* len(ACCOUNTS) as the sampler sees it
    coll,            \* per collect_all_snapshots() call: its semaphore's waiters and holders
    cleaning,        \* cleanup_snapshots() is running
    life,            \* where lifespan() is
    conn             \* _db_connection: "open" or "closed" (None)

hubVars == <<clients, balances, positions, pending_orders, bc, rp, chan, recv,
             tracing, nEvents, lastEvent>>

connVars == <<pc, running, ws, selfWs, stopReq, ended, hb>>

dbVars == <<db, committed, nextId, now, task, cleaner, reader, lastRead, saved>>

procVars == <<raised, nAccounts, coll, cleaning, life, conn>>

vars == <<hubVars, connVars, dbVars, procVars>>

\* ------------------------------------------------------- Python containers

\* A dict, as the sequence of its items in insertion order.
DictKeys(d) == {d[i].k : i \in 1..Len(d)}

DictHas(d, key) == key \in DictKeys(d)

DictGet(d, key) == (CHOOSE i \in 1..Len(d) : d[i].k = key) \* index


DictVal(d, key) == d[DictGet(d, key)].v

\* A cache with one slot that every key shares.
DictPutShared(d, key, val) == <<[k |-> key, v |-> val]>>

\* d[key] = val: in place for a known key, appended for a new one.
DictPut(d, key, val) ==
    IF DictHas(d, key)
    THEN [d EXCEPT ![DictGet(d, key)] = [k |-> key, v |-> val]]
    ELSE Append(d, [k |-> key, v |-> val])

\* d.pop(key, None)
DictPop(d, key) ==
    IF DictHas(d, key)
    THEN LET i == DictGet(d, key)
         IN  SubSeq(d, 1, i - 1) \o SubSeq(d, i + 1, Len(d))
    ELSE d

\* list(d.values())
DictValues(d) == [i \in 1..Len(d) |-> d[i].v]

\* A removal without the guard "x in list" that takes the first element when
\* x is absent.
ListRemoveOrFirst(l, x) ==
    IF \E i \in 1..Len(l) : l[i] = x THEN SelectSeq(l, LAMBDA y : y # x)
    ELSE IF l = <<>> THEN l ELSE Tail(l)

\* list.remove(x) guarded by "x in list": the first occurrence goes.
ListRemove(l, x) ==
    IF \E i \in 1..Len(l) : l[i] = x
    THEN LET i == CHOOSE j \in 1..Len(l) :
                      l[j] = x /\ \A h \in 1..(j - 1) : l[h] # x
         IN  SubSeq(l, 1, i - 1) \o SubSeq(l, i + 1, Len(l))
    ELSE l

\* A clean-up that unregisters nobody.
ListKeepAll(l, xs) == l

RECURSIVE ListRemoveAll(_, _)
ListRemoveAll(l, xs) ==
    IF xs = <<>> THEN l
    ELSE ListRemoveAll(ListRemove(l, Head(xs)), Tail(xs))

SeqRange(s) == {s[i] : i \in 1..Len(s)}

\* ------------------------------------------------------ upstream payloads

\* A JSON field of an upstream payload: "none" stands for a missing key.
\* Numbers arrive as strings; FloatOf is float() on the numeric ones, with
\* the float kept in tenths.
NumStr == {"0", "5", "10", "-5", "0.5", "500", "8000", "10000.5", "25000"}

FloatOf(s) ==
    CASE s = "0" -> 0
      [] s = "5" -> 50
      [] s = "10" -> 100
      [] s = "-5" -> 0 - 50
      [] s = "0.5" -> 5
      [] s = "500" -> 5000
      [] s = "8000" -> 80000
      [] s = "10000.5" -> 100005
      [] s = "25000" -> 250000

\* float(val) raises ValueError/TypeError
FloatRaises(val) == val \notin NumStr

\* safe_float of _on_balance_update: the default for None, "" and whatever
\* float() rejects.
safe_float(val) ==
    IF val = "none" \/ val = "" THEN 0
    ELSE IF FloatRaises(val) THEN 0
    ELSE FloatOf(val)

\* float(item.get(f, 0)): the default 0 only for a missing key.
FloatDefault(val) == IF val = "none" THEN 0 ELSE FloatOf(val)

FloatDefaultRaises(val) == val # "none" /\ FloatRaises(val)

\* float(item.get(f, 0) or 0): 0 for a missing key and for "".
FloatOrZero(val) == IF val \in {"none", ""} THEN 0 ELSE FloatOf(val)

FloatOrZeroRaises(val) == val \notin {"none", ""} /\ FloatRaises(val)

\* int(item.get("lever", 1) or 1)
IntOrOne(val) == IF val \in {"none", ""} THEN 1 ELSE FloatOf(val) \div 10

\* float(item.get(f, 0)) if item.get(f) else None; None is <<>>.
FloatOrNone(val) == IF val \in {"none", ""} THEN <<>> ELSE <<FloatOf(val)>>

\* datetime.fromtimestamp(int(ms) / 1000).isoformat() if ms else None, kept
\* as the second it names.
IsoOrNone(val) == IF val \in {"none", ""} THEN <<>> ELSE <<(FloatOf(val) \div 10) \div 1000>>

\* item.get(key, default) for a string field
StrDefault(val, default) == IF val = "none" THEN default ELSE val

\* -------------------------------------------------- _on_balance_update

\* One row of balance_info["assets"].
AssetOf(detail) ==
    [ccy        |-> StrDefault(detail.ccy, ""),
     bal        |-> safe_float(detail.cashBal),
     avail_bal  |-> safe_float(detail.availBal),
     frozen_bal |-> safe_float(detail.frozenBal),
     eq         |-> safe_float(detail.eq),
     eq_usd     |-> safe_float(detail.eqUsd)]

\* if bal > 0 or eq > 0
KeepAsset(detail) == safe_float(detail.cashBal) > 0 \/ safe_float(detail.eq) > 0

RECURSIVE FilterAssets(_)
FilterAssets(details) ==
    IF details = <<>> THEN <<>>
    ELSE (IF KeepAsset(Head(details)) THEN <<AssetOf(Head(details))>> ELSE <<>>)
         \o FilterAssets(Tail(details))

\* assets.sort(key=lambda x: x["eq"], reverse=True): a stable sort, so a row
\* goes after the rows of equal or larger eq that precede it.
InsertByEqDesc(sorted, x) ==
    LET n == Cardinality({i \in 1..Len(sorted) : sorted[i].eq >= x.eq})
    IN  SubSeq(sorted, 1, n) \o <<x>> \o SubSeq(sorted, n + 1, Len(sorted))

RECURSIVE SortByEqDesc(_)
SortByEqDesc(s) ==
    IF s = <<>> THEN <<>>
    ELSE InsertByEqDesc(SortByEqDesc(SubSeq(s, 1, Len(s) - 1)), s[Len(s)])

\* next((d for d in details if d.get("ccy") == "USDT"), None), as a list of
\* at most one row.
UsdtDetail(details) ==
    LET idx == {i \in 1..Len(details) : details[i].ccy = "USDT"}
    IN  IF idx = {} THEN <<>>
        ELSE <<details[CHOOSE i \in idx : \A j \in idx : i <= j]>>

\* balance_info, built from data[0].
BalanceInfo(account_data) ==
    LET details == account_data.details
        usdt    == UsdtDetail(details)
    IN  [total_equity   |-> safe_float(account_data.totalEq),
         available      |-> IF usdt # <<>> THEN safe_float(usdt[1].availBal) ELSE 0,
         frozen         |-> IF usdt # <<>> THEN safe_float(usdt[1].frozenBal) ELSE 0,
         unrealized_pnl |-> safe_float(account_data.upl),
         margin_used    |-> safe_float(account_data.imr),
         assets         |-> SortByEqDesc(FilterAssets(details))]

\* A hub that merges an event into what it has cached: the assets of the
\* earlier events stay behind the new ones.
CacheBalanceMerge(cache, a, info) ==
    IF DictHas(cache, a)
    THEN DictPut(cache, a, [info EXCEPT !.assets = @ \o DictVal(cache, a).assets])
    ELSE DictPut(cache, a, info)

\* self._balances[account_id] = balance_info
CacheBalance(cache, a, info) == DictPut(cache, a, info)

\* ------------------------------------------------ _on_positions_update

PositionRaises(item) ==
    \/ FloatDefaultRaises(item.pos)
    \/ /\ FloatDefault(item.pos) # 0
       /\ \/ FloatOrZeroRaises(item.avgPx)
          \/ FloatOrZeroRaises(item.markPx)
          \/ FloatOrZeroRaises(item.upl)
          \/ FloatOrZeroRaises(item.uplRatio)
          \/ FloatOrZeroRaises(item.margin)
          \/ FloatOrZeroRaises(item.lever)

PositionsRaise(data) == \E i \in 1..Len(data) : PositionRaises(data[i])

PositionOf(item) ==
    [inst_id   |-> StrDefault(item.instId, ""),
     pos_side  |-> StrDefault(item.posSide, "net"),
     pos       |-> FloatDefault(item.pos),
     avg_px    |-> FloatOrZero(item.avgPx),
     mark_px   |-> FloatOrZero(item.markPx),
     upl       |-> FloatOrZero(item.upl),
     upl_ratio |-> FloatOrZero(item.uplRatio),
     margin    |-> FloatOrZero(item.margin),
     lever     |-> IntOrOne(item.lever)]

\* The list the loop appends to: items with pos == 0 are skipped.
RECURSIVE PositionList(_)
PositionList(data) ==
    IF data = <<>> THEN <<>>
    ELSE (IF FloatDefault(Head(data).pos) = 0 THEN <<>> ELSE <<PositionOf(Head(data))>>)
         \o PositionList(Tail(data))

\* --------------------------------------------------- _on_orders_update

\* A hub that keeps an order of any status.
OrderOfAnyStatus(item) == TRUE

\* if state in ("live", "partially_filled")
OrderIsPending(item) == item.state \in {"live", "partially_filled"}

OrderRaises(item) ==
    /\ OrderIsPending(item)
    /\ \/ FloatOrZeroRaises(item.cTime)
       \/ FloatOrZeroRaises(item.uTime)
       \/ FloatDefaultRaises(item.sz)
       \/ FloatOrZeroRaises(item.px)
       \/ FloatOrZeroRaises(item.fillSz)
       \/ FloatOrZeroRaises(item.avgPx)
       \/ FloatOrZeroRaises(item.lever)

OrderOf(item) ==
    [order_id   |-> StrDefault(item.ordId, ""),
     inst_id    |-> StrDefault(item.instId, ""),
     side       |-> StrDefault(item.side, ""),
     pos_side   |-> StrDefault(item.posSide, "net"),
     order_type |-> StrDefault(item.ordType, ""),
     sz         |-> FloatDefault(item.sz),
     px         |-> FloatOrNone(item.px),
     fill_sz    |-> FloatOrZero(item.fillSz),
     avg_px     |-> FloatOrNone(item.avgPx),
     state      |-> item.state,
     lever      |-> IntOrOne(item.lever),
     created_at |-> IsoOrNone(item.cTime),
     updated_at |-> IsoOrNone(item.uTime)]

\* The loop over the event's items, on the account's table in place: it stops
\* at the first item whose conversion raises, with the items before it applied.
RECURSIVE ApplyOrders(_, _)
ApplyOrders(table, data) ==
    IF data = <<>> THEN [table |-> table, raised |-> FALSE]
    ELSE LET item == Head(data)
             oid  == StrDefault(item.ordId, "")
         IN  IF OrderRaises(item) THEN [table |-> table, raised |-> TRUE]
             ELSE IF OrderIsPending(item)
                  THEN ApplyOrders(DictPut(table, oid, OrderOf(item)), Tail(data))
                  ELSE ApplyOrders(DictPop(table, oid), Tail(data))

\* self._pending_orders[account_id], after "if account_id not in ...: = {}"
OrdersTable(a) == IF DictHas(pending_orders, a) THEN DictVal(pending_orders, a) ELSE <<>>

\* ------------------------------------------------------------ broadcast

\* The message dict of broadcast()/send_json, without its wall-clock timestamp.
\* data is always a list: a balance_info travels as a list of one.
Msg(type, a, data) == [type |-> type, account_id |-> a, data |-> data]

NoMsg == Msg("none", "none", <<>>)

\* A broadcast() pass: the list iterator's index, dead_clients, and as history
\* the clients that got the message, those registered since the pass began and
\* the number, among the account's events, of the event the message is for.
IdlePass == [on |-> FALSE, msg |-> NoMsg, idx |-> 0, dead |-> <<>>,
             got |-> {}, stable |-> {}, seq |-> 0]

NewPass(m) == [on |-> TRUE, msg |-> m, idx |-> 0, dead |-> <<>>,
               got |-> {}, stable |-> SeqRange(clients),
               seq |-> nEvents[m.account_id] + 1]

\* send_json succeeds on an open websocket and raises on a closed one.
SendOk(o) == chan[o] = "open"

\* A send that reaches every observer instead of one.
DeliverAll(o, m, src) ==
    IF tracing
    THEN [x \in Observers |-> Append(recv[x], [type |-> m.type, account_id |-> m.account_id,
                                                data |-> m.data, src |-> src])]
    ELSE recv

Deliver(o, m, src) ==
    IF tracing
    THEN [recv EXCEPT ![o] = Append(@, [type |-> m.type, account_id |-> m.account_id,
                                        data |-> m.data, src |-> src])]
    ELSE recv

\* History: clients in gone are no longer "registered throughout" any pass.
Forget(passes, gone) ==
    [x \in Accounts |-> [passes[x] EXCEPT !.stable = @ \ gone]]

\* What the except clause of the loop in broadcast() does with a failed send.
DeadAfter(dead, o, ok) == IF ok THEN dead ELSE Append(dead, o)

\* broadcast(), from one suspension to the next: the next element of the list
\* iterator gets the message (and the coroutine suspends in send_json), or the
\* iterator is exhausted, the dead clients are disconnected and the pass ends,
\* leaving the connector at pcDone.
Broadcast(a, p, pcCont, pcDone) ==
    IF p.idx < Len(clients)
    THEN LET o  == clients[p.idx + 1]
             ok == SendOk(o)
         IN  /\ bc' = [bc EXCEPT ![a] =
                          [p EXCEPT !.idx = @ + 1,
                                    !.dead = DeadAfter(@, o, ok),
                                    !.got = IF ok THEN @ \cup {o} ELSE @]]
             /\ recv' = (IF ok THEN Deliver(o, p.msg, "live") ELSE recv)
             /\ clients' = clients
             /\ pc' = [pc EXCEPT ![a] = pcCont]
    ELSE /\ bc' = Forget([bc EXCEPT ![a] = IdlePass], SeqRange(p.dead))
         /\ clients' = ListRemoveAll(clients, p.dead)
         /\ recv' = recv
         /\ pc' = [pc EXCEPT ![a] = pcDone]

\* --------------------------------------------- connect / _send_cached_data

\* rp[o].ph: 0 not connected, 1..3 in the balances / positions / pending-orders
\* loop, 4 replay done (the endpoint is in its receive loop), 5 connect() raised,
\* 6 the endpoint has called disconnect().
ReplayDict(ph) ==
    CASE ph = 1 -> balances
      [] ph = 2 -> positions
      [] ph = 3 -> pending_orders

ReplayMsg(ph, item) ==
    CASE ph = 1 -> Msg("balance", item.k, <<item.v>>)
      [] ph = 2 -> Msg("positions", item.k, item.v)
      [] ph = 3 -> Msg("pending_orders", item.k, DictValues(item.v))

\* The next thing _send_cached_data does when it runs: a dict iterator raises
\* RuntimeError when the dict has grown since the loop began, yields its next
\* item, or is exhausted and the next loop begins.
RECURSIVE ReplayNext(_, _, _)
ReplayNext(ph, i, n) ==
    IF ph > 3 THEN [ph |-> 4, i |-> 0, n |-> 0, act |-> "done"]
    ELSE IF Len(ReplayDict(ph)) # n THEN [ph |-> ph, i |-> i, n |-> n, act |-> "raise"]
    ELSE IF i < n THEN [ph |-> ph, i |-> i, n |-> n, act |-> "send"]
    ELSE ReplayNext(ph + 1, 0, IF ph < 3 THEN Len(ReplayDict(ph + 1)) ELSE 0)

ReplayAt(ph, i, n) == [ph |-> ph, i |-> i, n |-> n]

\* _send_cached_data from one suspension to the next. An exception leaves
\* connect() and the endpoint, and the server closes the websocket.
SendCached(o, ph, i, n) ==
    LET r == ReplayNext(ph, i, n)
    IN  IF r.act = "send" /\ SendOk(o)
        THEN /\ recv' = Deliver(o, ReplayMsg(r.ph, ReplayDict(r.ph)[r.i + 1]), "replay")
             /\ rp' = [rp EXCEPT ![o] = ReplayAt(r.ph, r.i + 1, r.n)]
             /\ chan' = chan
        ELSE IF r.act = "done"
        THEN /\ rp' = [rp EXCEPT ![o] = ReplayAt(4, 0, 0)]
             /\ UNCHANGED <<recv, chan>>
        ELSE /\ rp' = [rp EXCEPT ![o] = ReplayAt(5, 0, 0)]
             /\ chan' = [chan EXCEPT ![o] = "closed"]
             /\ recv' = recv

\* WebSocketManager.connect: accept, append, replay up to the first suspension.
Register(o) ==
    /\ rp[o].ph = 0
    /\ chan[o] = "open"
    /\ clients' = Append(clients, o)
    /\ SendCached(o, 1, 0, Len(balances))
    /\ UNCHANGED <<balances, positions, pending_orders, bc, tracing, nEvents, lastEvent>>
    /\ UNCHANGED <<connVars, dbVars, procVars>>

ReplayStep(o) ==
    /\ rp[o].ph \in 1..3
    /\ SendCached(o, rp[o].ph, rp[o].i, rp[o].n)
    /\ UNCHANGED <<clients, balances, positions, pending_orders, bc, tracing, nEvents,
                   lastEvent>>
    /\ UNCHANGED <<connVars, dbVars, procVars>>

\* The frontend goes away.
ChannelClose(o) ==
    /\ rp[o].ph # 0
    /\ chan[o] = "open"
    /\ chan' = [chan EXCEPT ![o] = "closed"]
    /\ UNCHANGED <<clients, balances, positions, pending_orders, bc, rp, recv, tracing,
                   nEvents, lastEvent>>
    /\ UNCHANGED <<connVars, dbVars, procVars>>

\* WebSocketManager.disconnect
Unregister(l, o) == ListRemove(l, o)

\* websocket_endpoint: receive_text raises WebSocketDisconnect.
EndpointDisconnect(o) ==
    /\ rp[o].ph = 4
    /\ chan[o] = "closed"
    /\ clients' = Unregister(clients, o)
    /\ bc' = Forget(bc, {o})
    /\ rp' = [rp EXCEPT ![o] = ReplayAt(6, 0, 0)]
    /\ UNCHANGED <<balances, positions, pending_orders, chan, recv, tracing, nEvents,
                   lastEvent>>
    /\ UNCHANGED <<connVars, dbVars, procVars>>

\* ------------------------------------------------------ the three callbacks

ErrorMsg(a) == Msg("error", a, <<[message |-> "handler"]>>)

\* A connector that retries without the backoff sleep.
AfterSessionNoWait(a) == IF running[a] THEN "CONNECTING" ELSE "STOPPED"

\* A connector that gives up after a session has ended.
AfterSessionGiveUp(a) == "STOPPED"

\* The connector's pc when the loop "while self._running" is reached after a
\* session: asyncio.sleep(self._reconnect_delay) if still running, else return.
AfterSession(a) == IF running[a] THEN "RECONNECT_WAIT" ELSE "STOPPED"

RECURSIVE SumOver(_, _)
SumOver(f, S) ==
    IF S = {} THEN 0
    ELSE LET x == CHOOSE y \in S : TRUE IN f[x] + SumOver(f, S \ {x})

\* A connector that takes the next message while the callback of the last one
\* is still suspended in its broadcast.
InLiveEager(a) ==
    pc[a] \in {"LIVE", "LIVE_MERGE", "LIVE_ERROR"} /\ ws[a] = "open"
        /\ SumOver(nEvents, Accounts) < MaxEvents

\* A connector that hands messages to the callbacks as soon as it is logged in.
InLiveEarly(a) ==
    pc[a] \in {"SUBSCRIBING", "LIVE"} /\ ws[a] = "open"
        /\ SumOver(nEvents, Accounts) < MaxEvents

\* "async for message in ws" yields a message of the open transport while
\* connect() waits in it.
InLive(a) == pc[a] = "LIVE" /\ ws[a] = "open" /\ SumOver(nEvents, Accounts) < MaxEvents

\* _on_balance_update(account_id, data)
OnBalanceUpdate(a, data) ==
    /\ InLive(a)
    /\ nEvents' = [nEvents EXCEPT ![a] = @ + 1]
    /\ IF data = <<>>
       THEN UNCHANGED <<balances, lastEvent, bc, recv, clients, pc>>
       ELSE LET info == BalanceInfo(data[1])
            IN  /\ balances' = CacheBalance(balances, a, info)
                /\ lastEvent' = [lastEvent EXCEPT
                                    ![a] = <<data[1], IF @ = <<>> THEN 1 ELSE @[2] + 1>>]
                /\ Broadcast(a, NewPass(Msg("balance", a, <<info>>)), "LIVE_MERGE", "LIVE")
    /\ UNCHANGED <<positions, pending_orders, rp, chan, tracing>>
    /\ UNCHANGED <<running, ws, selfWs, stopReq, ended, hb, dbVars, procVars>>

\* _on_positions_update(account_id, data); an exception of float()/int() leaves
\* it before the cache is written and reaches _handle_message, which calls
\* on_error.
OnPositionsUpdate(a, data) ==
    /\ InLive(a)
    /\ nEvents' = [nEvents EXCEPT ![a] = @ + 1]
    /\ IF PositionsRaise(data)
       THEN /\ positions' = positions
            /\ Broadcast(a, NewPass(ErrorMsg(a)), "LIVE_ERROR", "LIVE")
       ELSE /\ positions' = DictPut(positions, a, PositionList(data))
            /\ Broadcast(a, NewPass(Msg("positions", a, PositionList(data))),
                         "LIVE_MERGE", "LIVE")
    /\ UNCHANGED <<balances, pending_orders, rp, chan, tracing, lastEvent>>
    /\ UNCHANGED <<running, ws, selfWs, stopReq, ended, hb, dbVars, procVars>>

\* _on_orders_update(account_id, data): the table is changed in place, item by
\* item; an exception leaves it with the items before it applied and skips the
\* broadcast of the table.
OnOrdersUpdate(a, data) ==
    /\ InLive(a)
    /\ nEvents' = [nEvents EXCEPT ![a] = @ + 1]
    /\ LET r == ApplyOrders(OrdersTable(a), data)
       IN  /\ pending_orders' = DictPut(pending_orders, a, r.table)
           /\ IF r.raised
              THEN Broadcast(a, NewPass(ErrorMsg(a)), "LIVE_ERROR", "LIVE")
              ELSE Broadcast(a, NewPass(Msg("pending_orders", a, DictValues(r.table))),
                             "LIVE_MERGE", "LIVE")
    /\ UNCHANGED <<balances, positions, rp, chan, tracing, lastEvent>>
    /\ UNCHANGED <<running, ws, selfWs, stopReq, ended, hb, dbVars, procVars>>

\* The loop of connect() and _handle_message on a message that reaches no
\* callback: "pong", invalid JSON, an event envelope, an unknown channel.
ReceiveIgnored(a, tag) ==
    /\ pc[a] = "LIVE"
    /\ ws[a] = "open"
    /\ tag \in {"pong", "badjson", "event", "other"}
    /\ UNCHANGED <<hubVars, connVars, dbVars, procVars>>

\* Text frames of the upstream: "pong", text that is not JSON, and JSON
\* objects with or without an "event" key and with arg.channel one of the
\* three subscribed channels, another one, or none.
Frames ==
    {[text |-> t, event |-> FALSE, channel |-> "none"] : t \in {"pong", "badjson"}}
    \cup {[text |-> "json", event |-> e, channel |-> c] :
             e \in BOOLEAN, c \in {"account", "positions", "orders", "tickers", "none"}}

\* A dispatch that takes every data message for a balance message.
HandleAsBalance(m) ==
    IF m.text # "json" \/ m.event THEN "none" ELSE "balance"

\* The callback that the receive loop and _handle_message choose for a frame:
\* "pong" is skipped by the loop, json.loads raises on other text, a message
\* with an "event" key returns early, then the channel decides.
HandleMessage(m) ==
    IF m.text = "pong" THEN "none"
    ELSE IF m.text # "json" THEN "none"
    ELSE IF m.event THEN "none"
    ELSE IF m.channel = "account" THEN "balance"
    ELSE IF m.channel = "positions" THEN "positions"
    ELSE IF m.channel = "orders" THEN "orders"
    ELSE "none"

\* The pass of the connector's pending callback resumes.
DoneOf(a) == IF pc[a] = "FAILED" THEN AfterSession(a) ELSE "LIVE"

BroadcastStep(a) ==
    /\ bc[a].on
    /\ Broadcast(a, bc[a], pc[a], DoneOf(a))
    /\ UNCHANGED <<balances, positions, pending_orders, rp, chan, tracing, nEvents,
                   lastEvent>>
    /\ UNCHANGED <<running, ws, selfWs, stopReq, ended, hb, dbVars, procVars>>

\* --------------------------------------------------- OKXWebSocketClient

\* A connector without heartbeat tasks: none created and waiting for its first
\* step, none in its sleep, no "ping" written yet.
NoPing == [created |-> 0, asleep |-> 0, sent |-> "none"]

\* A receive loop that ends without cancelling its heartbeat.
LeavePing(h) == h

\* ping_task.cancel(): the task is suspended (not yet started, or in
\* asyncio.sleep or send) and gets CancelledError at its next step, which
\* "except Exception" does not catch: it runs no statement of _ping_loop again.
CancelPing(h) == [h EXCEPT !.created = 0, !.asleep = 0]

\* The first step of a _ping_loop task: "while self._running and self._ws",
\* then asyncio.sleep(25).
PingStart(a) ==
    /\ hb[a].created > 0
    /\ hb' = [hb EXCEPT ![a].created = @ - 1,
                        ![a].asleep = IF running[a] /\ selfWs[a] # "none" THEN @ + 1 ELSE @]
    /\ UNCHANGED <<pc, running, ws, selfWs, stopReq, ended>>
    /\ UNCHANGED <<hubVars, dbVars, procVars>>

\* The sleep of a _ping_loop task is over: "ping" is written on self._ws if it
\* is set (a transport that is not open raises, and the loop breaks), then
\* the loop condition is read again.
PingTick(a) ==
    /\ hb[a].asleep > 0
    /\ LET written == selfWs[a] = "current" /\ ws[a] = "open"
           goes_on == running[a] /\ written
       IN hb' = [hb EXCEPT ![a].asleep = IF goes_on THEN @ ELSE @ - 1,
                           ![a].sent = IF written THEN pc[a] ELSE @]
    /\ UNCHANGED <<pc, running, ws, selfWs, stopReq, ended>>
    /\ UNCHANGED <<hubVars, dbVars, procVars>>

\* connect() begins: self._running = True, websockets.connect(...) is awaited.
Start(a) ==
    /\ pc[a] = "DISCONNECTED"
    /\ pc' = [pc EXCEPT ![a] = "CONNECTING"]
    /\ running' = [running EXCEPT ![a] = TRUE]
    /\ UNCHANGED <<ws, selfWs, stopReq, ended, hb>>
    /\ UNCHANGED <<hubVars, dbVars, procVars>>

\* The transport opens: self._ws = ws, _login() sends the login and awaits recv().
ConnectOk(a) ==
    /\ pc[a] = "CONNECTING"
    /\ pc' = [pc EXCEPT ![a] = "AUTHENTICATING"]
    /\ ws' = [ws EXCEPT ![a] = "open"]
    /\ selfWs' = [selfWs EXCEPT ![a] = "current"]
    /\ UNCHANGED <<running, stopReq, ended, hb>>
    /\ UNCHANGED <<hubVars, dbVars, procVars>>

\* "except Exception" of connect(): on_error is awaited, then the loop goes on.
SessionError(a) ==
    /\ Broadcast(a, NewPass(Msg("error", a, <<[message |-> "session"]>>)),
                 "FAILED", AfterSession(a))
    /\ ws' = [ws EXCEPT ![a] = "none"]
    /\ selfWs' = [selfWs EXCEPT ![a] = IF @ = "current" THEN "stale" ELSE @]
    /\ ended' = [ended EXCEPT ![a] = "error"]
    /\ UNCHANGED <<running, stopReq, hb, dbVars, procVars>>
    /\ UNCHANGED <<balances, positions, pending_orders, rp, chan, tracing, nEvents,
                   lastEvent>>

\* websockets.connect raises (refused, handshake rejected, open timeout).
ConnectFail(a) ==
    /\ pc[a] = "CONNECTING"
    /\ SessionError(a)

\* data.get("event") == "error" or data.get("code") != "0"
LoginRejected(ack) == ack.event = "error" \/ ack.code # "0"

AckKinds == {[event |-> "login", code |-> "0"],
             [event |-> "error", code |-> "60009"],
             [event |-> "login", code |-> "1"]}

\* The login acknowledgment arrives: _login() raises, or _subscribe() sends.
LoginAck(a, ack) ==
    /\ pc[a] = "AUTHENTICATING"
    /\ ws[a] = "open"
    /\ IF LoginRejected(ack)
       THEN SessionError(a)
       ELSE /\ pc' = [pc EXCEPT ![a] = "SUBSCRIBING"]
            /\ UNCHANGED <<running, ws, selfWs, stopReq, ended, hb>>
            /\ UNCHANGED <<hubVars, dbVars, procVars>>

\* The subscribe request is written: the heartbeat task is created, "async for"
\* begins.
SubscribeDone(a) ==
    /\ pc[a] = "SUBSCRIBING"
    /\ ws[a] = "open"
    /\ pc' = [pc EXCEPT ![a] = "LIVE"]
    /\ hb' = [hb EXCEPT ![a].created = @ + 1]
    /\ UNCHANGED <<running, ws, selfWs, stopReq, ended, dbVars, procVars>>
    /\ UNCHANGED <<hubVars, dbVars, procVars>>

\* The upstream or the network closes the transport.
TransportClose(a) ==
    /\ ws[a] = "open"
    /\ ws' = [ws EXCEPT ![a] = "closed"]
    /\ UNCHANGED <<pc, running, selfWs, stopReq, ended, hb>>
    /\ UNCHANGED <<hubVars, dbVars, procVars>>

\* recv(), send() or "async for" meets the closed transport: ConnectionClosed
\* (or the end of the iteration) leaves the session without on_error; the
\* "finally" of the receive loop cancels the heartbeat.
SessionClosed(a) ==
    /\ pc[a] \in {"AUTHENTICATING", "SUBSCRIBING", "LIVE"}
    /\ ws[a] = "closed"
    /\ pc' = [pc EXCEPT ![a] = AfterSession(a)]
    /\ ws' = [ws EXCEPT ![a] = "none"]
    /\ selfWs' = [selfWs EXCEPT ![a] = IF @ = "current" THEN "stale" ELSE @]
    /\ ended' = [ended EXCEPT ![a] = IF pc[a] = "LIVE" THEN "closed_live" ELSE "closed"]
    /\ hb' = [hb EXCEPT ![a] = IF pc[a] = "LIVE" THEN CancelPing(@) ELSE @]
    /\ UNCHANGED <<running, stopReq>>
    /\ UNCHANGED <<hubVars, dbVars, procVars>>

\* asyncio.sleep(self._reconnect_delay) is over: "while self._running".
ReconnectTimer(a) ==
    /\ pc[a] = "RECONNECT_WAIT"
    /\ pc' = [pc EXCEPT ![a] = IF running[a] THEN "CONNECTING" ELSE "STOPPED"]
    /\ UNCHANGED <<running, ws, selfWs, stopReq, ended, hb, dbVars, procVars>>
    /\ UNCHANGED <<hubVars, dbVars, procVars>>

\* OKXWebSocketClient.disconnect, called once by stop_okx_connections.
Disconnect(a) ==
    /\ pc[a] # "DISCONNECTED"
    /\ ~stopReq[a]
    /\ stopReq' = [stopReq EXCEPT ![a] = TRUE]
    /\ running' = [running EXCEPT ![a] = FALSE]
    /\ ws' = [ws EXCEPT ![a] = IF selfWs[a] = "current" /\ @ = "open" THEN "closed" ELSE @]
    /\ selfWs' = [selfWs EXCEPT ![a] = "none"]
    /\ UNCHANGED <<pc, ended, hb>>
    /\ UNCHANGED <<hubVars, dbVars, procVars>>

\* ------------------------------------------------------ the snapshot store

\* The wall clock's readings (ms), in order: one in the first minute, then a
\* day later the start of a minute and a moment within that minute.
Times == <<10000, 86400000, 86410000>>

NowMs == Times[now]

MsPerDay == 24 * 60 * 60 * 1000

\* retention_days of cleanup_old_snapshots: RETENTION_DAYS is read from the
\* environment; one day separates the readings of the clock.
RetentionChoices == {1}

\* An alignment that zeroes the milliseconds only.
AlignToSecond(ts_ms) == (ts_ms \div 1000) * 1000

\* A sampler that stamps the snapshot with the clock's reading as it is.
NoAlignment(ts_ms) == ts_ms

\* _align_to_minute(ts_ms)
_align_to_minute(ts_ms) == (((ts_ms \div 1000) \div 60) * 60) * 1000

SnapshotIds == 1..MaxSaves

Tasks == {"t1", "t2"}

\* The two tables: balance_snapshots as a set of rows, currency_snapshots as
\* the rows of each snapshot_id in rowid order.
EmptyTables == [rows |-> {}, cur |-> [i \in SnapshotIds |-> <<>>]]

Asset(ccy, eq) == [ccy |-> ccy, bal |-> eq, avail_bal |-> eq, frozen_bal |-> 0,
                   eq |-> eq, eq_usd |-> eq]

\* What OKXRestClient.get_balance can return.
FetchedBalances ==
    {[total_equity |-> 100, available |-> 80, frozen |-> 5, margin_used |-> 10,
      unrealized_pnl |-> 2, assets |-> <<Asset("BTC", 60), Asset("USDT", 40)>>],
     [total_equity |-> 105, available |-> 85, frozen |-> 5, margin_used |-> 15,
      unrealized_pnl |-> 3, assets |-> <<Asset("USDT", 105)>>]}

\* BalanceSnapshot(...) of _collect_snapshot
BalanceSnapshot(a, ts, balance) ==
    [account_id |-> a, timestamp |-> ts,
     total_equity |-> balance.total_equity, available |-> balance.available,
     frozen |-> balance.frozen, margin_used |-> balance.margin_used,
     unrealized_pnl |-> balance.unrealized_pnl,
     currencies |-> balance.assets]

SummaryRow(id, snapshot, created) ==
    [id |-> id, account_id |-> snapshot.account_id, timestamp |-> snapshot.timestamp,
     total_equity |-> snapshot.total_equity, available |-> snapshot.available,
     frozen |-> snapshot.frozen, margin_used |-> snapshot.margin_used,
     unrealized_pnl |-> snapshot.unrealized_pnl, created_at |-> created]

\* A store whose foreign keys are not enforced: deleting a summary row leaves
\* its currency rows.
DeleteRowsNoCascade(tables, gone) == [tables EXCEPT !.rows = @ \ gone]

\* DELETE of summary rows: ON DELETE CASCADE (PRAGMA foreign_keys = ON) takes
\* their currency rows.
DeleteRows(tables, gone) ==
    [rows |-> tables.rows \ gone,
     cur  |-> [i \in SnapshotIds |->
                  IF \E r \in gone : r.id = i THEN <<>> ELSE tables.cur[i]]]

\* UNIQUE(account_id, timestamp)
Conflicting(tables, snapshot) ==
    {r \in tables.rows : r.account_id = snapshot.account_id
                         /\ r.timestamp = snapshot.timestamp}

\* INSERT OR REPLACE INTO balance_snapshots: the row in conflict is deleted (with
\* its currency rows) and the new row gets the next AUTOINCREMENT id.
InsertOrReplace(tables, id, snapshot, created) ==
    LET kept == DeleteRows(tables, Conflicting(tables, snapshot))
    IN  [kept EXCEPT !.rows = @ \cup {SummaryRow(id, snapshot, created)}]

\* The branch "if cursor.lastrowid == 0" of save_snapshot: the id of the row
\* holding (account_id, timestamp) is looked up and its currency rows deleted.
LookupBranch(tables, lastrowid, snapshot) ==
    IF lastrowid = 0 /\ Conflicting(tables, snapshot) # {}
    THEN LET row == CHOOSE r \in Conflicting(tables, snapshot) : TRUE
         IN  [sid |-> row.id, tables |-> [tables EXCEPT !.cur[row.id] = <<>>]]
    ELSE [sid |-> lastrowid, tables |-> tables]

\* FOREIGN KEY (snapshot_id) REFERENCES balance_snapshots(id)
ParentExists(tables, sid) == \E r \in tables.rows : r.id = sid

CurrencyRow(sid, currency) ==
    [snapshot_id |-> sid, ccy |-> currency.ccy, bal |-> currency.bal,
     avail_bal |-> currency.avail_bal, frozen_bal |-> currency.frozen_bal,
     eq |-> currency.eq, eq_usd |-> currency.eq_usd]

IdleTask == [pc |-> "idle", account_id |-> "none", snapshot |-> <<>>, sid |-> 0, i |-> 0]

IdleCleaner == [pc |-> "idle", deleted |-> 0, cutoff |-> 0]

IdleReader == [pc |-> "idle", snaps |-> <<>>, i |-> 0, out |-> <<>>]

\* collect_all_snapshots starts _collect_snapshot(account_id): get_balance is
\* awaited.
CollectStart(t, a) ==
    /\ task[t].pc = "idle"
    /\ nextId + Cardinality({u \in Tasks : task[u].pc = "fetch"}) <= MaxSaves
    /\ task' = [task EXCEPT ![t] = [IdleTask EXCEPT !.pc = "fetch", !.account_id = a]]
    /\ UNCHANGED <<db, committed, nextId, now, cleaner, reader, lastRead, saved>>
    /\ UNCHANGED <<hubVars, connVars, procVars>>

\* get_balance raises: "except Exception" returns False.
FetchFail(t) ==
    /\ task[t].pc = "fetch"
    /\ task' = [task EXCEPT ![t] = IdleTask]
    /\ UNCHANGED <<db, committed, nextId, now, cleaner, reader, lastRead, saved>>
    /\ UNCHANGED <<hubVars, connVars, procVars>>

\* get_balance returns: the snapshot is built at the aligned time and
\* save_snapshot runs its INSERT OR REPLACE.
FetchOk(t, balance) ==
    /\ task[t].pc = "fetch"
    /\ LET snapshot == BalanceSnapshot(task[t].account_id, _align_to_minute(NowMs), balance)
           inserted == InsertOrReplace(db, nextId, snapshot, NowMs)
           looked   == LookupBranch(inserted, nextId, snapshot)
       IN  /\ db' = looked.tables
           /\ saved' = [saved EXCEPT ![nextId] = <<snapshot, NowMs>>]
           /\ task' = [task EXCEPT ![t] = [@ EXCEPT !.pc = "rows", !.snapshot = <<snapshot>>,
                                                     !.sid = looked.sid, !.i = 0]]
    /\ nextId' = nextId + 1
    /\ UNCHANGED <<committed, now, cleaner, reader, lastRead>>
    /\ UNCHANGED <<hubVars, connVars, procVars>>

\* The next INSERT INTO currency_snapshots; a missing parent row makes it raise
\* IntegrityError, which leaves save_snapshot without commit or rollback.
InsertCurrency(t) ==
    /\ task[t].pc = "rows"
    /\ task[t].i < Len(task[t].snapshot[1].currencies)
    /\ IF ParentExists(db, task[t].sid)
       THEN /\ db' = [db EXCEPT !.cur[task[t].sid] =
                         Append(@, CurrencyRow(task[t].sid,
                                               task[t].snapshot[1].currencies[task[t].i + 1]))]
            /\ task' = [task EXCEPT ![t].i = @ + 1]
       ELSE /\ db' = db
            /\ task' = [task EXCEPT ![t] = IdleTask]
    /\ UNCHANGED <<committed, nextId, now, cleaner, reader, lastRead, saved>>
    /\ UNCHANGED <<hubVars, connVars, procVars>>

\* The next INSERT INTO currency_snapshots raises for another reason (NOT NULL
\* on a ccy of None, an I/O error of the driver): save_snapshot is left without
\* commit or rollback and _collect_snapshot returns False.
InsertRaises(t) ==
    /\ task[t].pc = "rows"
    /\ task[t].i < Len(task[t].snapshot[1].currencies)
    /\ ParentExists(db, task[t].sid)
    /\ raised' = raised \cup {task[t].sid}
    /\ task' = [task EXCEPT ![t] = IdleTask]
    /\ UNCHANGED <<db, committed, nextId, now, cleaner, reader, lastRead, saved>>
    /\ UNCHANGED <<hubVars, connVars, nAccounts, coll, cleaning, life, conn>>

\* A sampler that also puts what it saved into the hub's balance cache.
CommitAndCache(t) ==
    /\ task[t].pc = "rows"
    /\ task[t].i = Len(task[t].snapshot[1].currencies)
    /\ committed' = db
    /\ task' = [task EXCEPT ![t] = IdleTask]
    /\ balances' = DictPut(balances, task[t].account_id, task[t].snapshot[1])
    /\ UNCHANGED <<clients, positions, pending_orders, bc, rp, chan, recv, tracing,
                   nEvents, lastEvent>>
    /\ UNCHANGED <<db, nextId, now, cleaner, reader, lastRead, saved>>
    /\ UNCHANGED <<connVars, procVars>>

\* await db.commit(): everything done on the connection so far is committed.
CommitSave(t) ==
    /\ task[t].pc = "rows"
    /\ task[t].i = Len(task[t].snapshot[1].currencies)
    /\ committed' = db
    /\ task' = [task EXCEPT ![t] = IdleTask]
    /\ UNCHANGED <<db, nextId, now, cleaner, reader, lastRead, saved>>
    /\ UNCHANGED <<hubVars, connVars, procVars>>

\* A DELETE that also takes the rows at the cutoff.
ExpiredInclusive(tables, cutoff) == {r \in tables.rows : r.timestamp <= cutoff}

\* cleanup_old_snapshots(retention_days): DELETE ... WHERE timestamp < cutoff
Expired(tables, cutoff) == {r \in tables.rows : r.timestamp < cutoff}

CleanupDelete(days) ==
    /\ cleaner.pc = "idle"
    /\ LET cutoff == NowMs - days * MsPerDay
       IN  /\ db' = DeleteRows(db, Expired(db, cutoff))
           /\ cleaner' = [pc |-> "commit", deleted |-> Cardinality(Expired(db, cutoff)),
                          cutoff |-> cutoff]
    /\ UNCHANGED <<committed, nextId, now, task, reader, lastRead, saved>>
    /\ UNCHANGED <<hubVars, connVars, procVars>>

CleanupCommit ==
    /\ cleaner.pc = "commit"
    /\ committed' = db
    /\ cleaner' = IdleCleaner
    /\ UNCHANGED <<db, nextId, now, task, reader, lastRead, saved>>
    /\ UNCHANGED <<hubVars, connVars, procVars>>

\* ORDER BY timestamp ASC over a set of summary rows
RECURSIVE ByTimestamp(_)
ByTimestamp(rows) ==
    IF rows = {} THEN <<>>
    ELSE LET first == CHOOSE r \in rows : \A q \in rows : r.timestamp <= q.timestamp
         IN  <<first>> \o ByTimestamp(rows \ {first})

\* ORDER BY eq_usd DESC over the currency rows of one snapshot
RECURSIVE ByEqUsdDesc(_)
ByEqUsdDesc(s) ==
    IF s = <<>> THEN <<>>
    ELSE LET sorted == ByEqUsdDesc(SubSeq(s, 1, Len(s) - 1))
             x == s[Len(s)]
             n == Cardinality({i \in 1..Len(sorted) : sorted[i].eq_usd >= x.eq_usd})
         IN  SubSeq(sorted, 1, n) \o <<x>> \o SubSeq(sorted, n + 1, Len(sorted))

\* The columns get_snapshots selects.
Selected(r) ==
    [id |-> r.id, account_id |-> r.account_id, timestamp |-> r.timestamp,
     total_equity |-> r.total_equity, available |-> r.available, frozen |-> r.frozen,
     margin_used |-> r.margin_used, unrealized_pnl |-> r.unrealized_pnl]

\* get_snapshots_with_currencies(account_id, start, end) over a range that
\* holds every timestamp: get_snapshots selects
\* the summary rows on the shared connection.
ReadStart(a) ==
    /\ reader.pc = "idle"
    /\ LET snaps == ByTimestamp({Selected(r) : r \in {q \in db.rows : q.account_id = a}})
       IN  IF snaps = <<>>
           THEN /\ lastRead' = <<>>
                /\ reader' = IdleReader
           ELSE /\ lastRead' = lastRead
                /\ reader' = [pc |-> "currencies", snaps |-> snaps, i |-> 0, out |-> <<>>]
    /\ UNCHANGED <<db, committed, nextId, now, task, cleaner, saved>>
    /\ UNCHANGED <<hubVars, connVars, procVars>>

\* The SELECT of one snapshot's currency rows; after the last one the list is
\* returned.
ReadCurrencies ==
    /\ reader.pc = "currencies"
    /\ LET snap == reader.snaps[reader.i + 1]
           out  == Append(reader.out,
                          [snapshot |-> snap, currencies |-> ByEqUsdDesc(db.cur[snap.id])])
       IN  IF reader.i + 1 = Len(reader.snaps)
           THEN /\ lastRead' = out
                /\ reader' = IdleReader
           ELSE /\ lastRead' = lastRead
                /\ reader' = [reader EXCEPT !.i = @ + 1, !.out = out]
    /\ UNCHANGED <<db, committed, nextId, now, task, cleaner, saved>>
    /\ UNCHANGED <<hubVars, connVars, procVars>>

\* Time passes.
Tick ==
    /\ now < Len(Times)
    /\ now' = now + 1
    /\ UNCHANGED <<db, committed, nextId, task, cleaner, reader, lastRead, saved>>
    /\ UNCHANGED <<hubVars, connVars, procVars>>

\* ------------------------------------------------------- upstream messages

Detail(ccy, cashBal, eq) ==
    [ccy |-> ccy, cashBal |-> cashBal, eq |-> eq, availBal |-> cashBal,
     frozenBal |-> "0", eqUsd |-> eq]

AccountData(totalEq, upl, details) ==
    [totalEq |-> totalEq, upl |-> upl, imr |-> "5", details |-> details]

PositionItem(instId, posSide, pos) ==
    [instId |-> instId, posSide |-> posSide, pos |-> pos, avgPx |-> "10",
     markPx |-> "10", upl |-> "", uplRatio |-> "none", margin |-> "5", lever |-> "5"]

OrderItem(ordId, state, sz) ==
    [ordId |-> ordId, state |-> state, instId |-> "BTC-USDT-SWAP", side |-> "buy",
     posSide |-> "long", ordType |-> "limit", sz |-> sz, px |-> "10", fillSz |-> "0",
     avgPx |-> "", lever |-> "5", cTime |-> "10", uTime |-> "none"]

\* Sequences over S of at most n elements.
SeqsUpTo(S, n) == UNION {[1..k -> S] : k \in 0..n}

\* Currency rows of a balance event: one kept by its balance, one kept by its
\* equity alone, one that is dropped.
DetailPool ==
    {Detail("USDT", "10", "10"), Detail("BTC", "0", "5"), Detail("ETH", "", "-5")}

\* The data lists of the account channel: none, or one account record whose
\* numbers are well formed, or empty and malformed.
BalanceEvents ==
    {<<>>}
    \cup {<<AccountData("10", "5", details)>> : details \in SeqsUpTo(DetailPool, MaxDetails)}
    \cup {<<AccountData("", "abc", details)>> : details \in SeqsUpTo(DetailPool, MaxDetails)}

\* The account record of the documented scenario: totalEq 10000.5, a USDT row
\* with availBal 8000, frozenBal 500 and eq 10000.5, and a BTC row worth 25000
\* in USD, holding half a coin or 25000 coins, in either order of the rows.
ScenarioEvents ==
    LET usdt == [ccy |-> "USDT", cashBal |-> "10000.5", eq |-> "10000.5",
                 availBal |-> "8000", frozenBal |-> "500", eqUsd |-> "10000.5"]
        btc(eq) == [ccy |-> "BTC", cashBal |-> eq, eq |-> eq, availBal |-> eq,
                    frozenBal |-> "0", eqUsd |-> "25000"]
    IN  {<<AccountData("10000.5", "0", rows)>> :
            rows \in UNION {{<<usdt, btc(eq)>>, <<btc(eq), usdt>>} : eq \in {"0.5", "25000"}}}

\* Items of a positions event: two sides of one instrument, with a size that
\* is zero, nonzero or not a number.
PositionPool ==
    {PositionItem("BTC-USDT-SWAP", side, pos) :
        side \in {"long", "short"}, pos \in {"0", "5", "abc"}}

PositionEvents == SeqsUpTo(PositionPool, MaxItems)

\* Items of an orders event: two order ids, in a pending or a terminal
\* status, one with a size that is not a number.
OrderPool ==
    {OrderItem(ordId, st[1], st[2]) :
        ordId \in {"1", "2"},
        st \in {<<"live", "5">>, <<"partially_filled", "5">>, <<"canceled", "5">>,
                 <<"live", "abc">>}}

OrderEvents == SeqsUpTo(OrderPool, MaxItems)

\* The data lists of the account channel used with observers attached.
HubBalanceEvents ==
    {<<AccountData("10", "0", <<Detail("USDT", "10", "10")>>)>>}

HubPositionEvents ==
    {<<PositionItem("BTC-USDT-SWAP", "long", "5")>>}

HubOrderEvents ==
    {<<OrderItem("1", "live", "5")>>}

\* One frame of "async for message in ws" handled by the connector of a: the
\* callback chosen is awaited with self.account.id and the message's data.
Receive(a, m) ==
    LET cb == HandleMessage(m)
    IN  \/ cb = "balance" /\ \E data \in HubBalanceEvents : OnBalanceUpdate(a, data)
        \/ cb = "positions" /\ \E data \in HubPositionEvents : OnPositionsUpdate(a, data)
        \/ cb = "orders" /\ \E data \in HubOrderEvents : OnOrdersUpdate(a, data)
        \/ cb = "none" /\ ReceiveIgnored(a, IF m.text = "json" THEN
                                              (IF m.event THEN "event" ELSE "other")
                                            ELSE m.text)

\* ------------------------------------------------------------ initial states

HubInit(traceOn) ==
    /\ clients = <<>>
    /\ balances = <<>>
    /\ positions = <<>>
    /\ pending_orders = <<>>
    /\ bc = [a \in Accounts |-> IdlePass]
    /\ rp = [o \in Observers |-> ReplayAt(0, 0, 0)]
    /\ chan = [o \in Observers |-> "open"]
    /\ recv = [o \in Observers |-> <<>>]
    /\ tracing = traceOn
    /\ nEvents = [a \in Accounts |-> 0]
    /\ lastEvent = [a \in Accounts |-> <<>>]

\* Before start_okx_connections.
ConnInit ==
    /\ pc = [a \in Accounts |-> "DISCONNECTED"]
    /\ running = [a \in Accounts |-> FALSE]
    /\ ws = [a \in Accounts |-> "none"]
    /\ selfWs = [a \in Accounts |-> "none"]
    /\ stopReq = [a \in Accounts |-> FALSE]
    /\ ended = [a \in Accounts |-> "none"]
    /\ hb = [a \in Accounts |-> NoPing]

\* Every connector logged in, subscribed and waiting for a message.
ConnLive ==
    /\ pc = [a \in Accounts |-> "LIVE"]
    /\ running = [a \in Accounts |-> TRUE]
    /\ ws = [a \in Accounts |-> "open"]
    /\ selfWs = [a \in Accounts |-> "current"]
    /\ stopReq = [a \in Accounts |-> FALSE]
    /\ ended = [a \in Accounts |-> "none"]
    /\ hb = [a \in Accounts |-> [NoPing EXCEPT !.asleep = 1]]

\* An empty store, as _create_tables leaves it.
DbInit ==
    /\ db = EmptyTables
    /\ committed = EmptyTables
    /\ nextId = 1
    /\ now = 1
    /\ task = [t \in Tasks |-> IdleTask]
    /\ cleaner = IdleCleaner
    /\ reader = IdleReader
    /\ lastRead = <<>>
    /\ saved = [i \in SnapshotIds |-> <<>>]

\* ------------------------------------------- the scheduler and the lifespan

MAX_CONCURRENT == 5

Collections == {"startup", "tick"}

IdleCollection == [on |-> FALSE, waiting |-> 0, running |-> 0]

\* collect_all_snapshots(): a semaphore of its own and one collect_with_limit
\* per account, all waiting for it.
NewCollection(n) == [on |-> TRUE, waiting |-> n, running |-> 0]

\* _collect_snapshot executions in flight, over every collection.
InFlight == coll["startup"].running + coll["tick"].running

\* The cron trigger fires the collector job; APScheduler runs one instance of
\* a job at a time.
TickFire ==
    /\ life = "serving"
    /\ ~coll["tick"].on
    /\ coll' = [coll EXCEPT !["tick"] = NewCollection(nAccounts)]
    /\ UNCHANGED <<raised, nAccounts, cleaning, life, conn>>
    /\ UNCHANGED <<hubVars, connVars, dbVars>>

\* "async with semaphore" of one collect_with_limit: _collect_snapshot begins.
Acquire(c) ==
    /\ coll[c].on
    /\ coll[c].waiting > 0
    /\ coll[c].running < MAX_CONCURRENT
    /\ coll' = [coll EXCEPT ![c].waiting = @ - 1, ![c].running = @ + 1]
    /\ UNCHANGED <<raised, nAccounts, cleaning, life, conn>>
    /\ UNCHANGED <<hubVars, connVars, dbVars>>

\* One _collect_snapshot returns and releases the semaphore: False after a
\* failed fetch, True after save_snapshot, whose get_db() opens a connection
\* when there is none; gather() returns with the last of them.
FinishCollect(c, ok) ==
    /\ coll[c].running > 0
    /\ coll' = [coll EXCEPT ![c] =
                   IF @.waiting = 0 /\ @.running = 1 THEN IdleCollection
                   ELSE [@ EXCEPT !.running = @ - 1]]
    /\ conn' = IF ok THEN "open" ELSE conn
    /\ UNCHANGED <<raised, nAccounts, cleaning, life>>
    /\ UNCHANGED <<hubVars, connVars, dbVars>>

\* The weekly trigger fires cleanup_snapshots, whose cleanup_old_snapshots
\* takes the connection from get_db() at once.
CleanupFire ==
    /\ life = "serving"
    /\ ~cleaning
    /\ cleaning' = TRUE
    /\ UNCHANGED <<raised, nAccounts, coll, life, conn>>
    /\ UNCHANGED <<hubVars, connVars, dbVars>>

\* cleanup_snapshots returns: after DELETE and commit, or after the exception
\* of a connection closed under it, which it logs.
CleanupDone ==
    /\ cleaning
    /\ cleaning' = FALSE
    /\ UNCHANGED <<raised, nAccounts, coll, life, conn>>
    /\ UNCHANGED <<hubVars, connVars, dbVars>>

\* lifespan after yield: stop_scheduler() is shutdown(wait=False), running
\* jobs and the start-up task go on.
StopScheduler ==
    /\ life = "serving"
    /\ life' = "scheduler_stopped"
    /\ UNCHANGED <<raised, nAccounts, coll, cleaning, conn>>
    /\ UNCHANGED <<hubVars, connVars, dbVars>>

\* lifespan: await close_db()
CloseDb ==
    /\ life = "scheduler_stopped"
    /\ life' = "db_closed"
    /\ conn' = "closed"
    /\ UNCHANGED <<raised, nAccounts, coll, cleaning>>
    /\ UNCHANGED <<hubVars, connVars, dbVars>>

\* lifespan: stop_okx_connections() disconnects the clients in the order of
\* ACCOUNTS.
AccountOrder == <<"a1", "a2">>

StopConnector(i) ==
    /\ life = "db_closed"
    /\ \A j \in 1..(i - 1) : stopReq[AccountOrder[j]]
    /\ Disconnect(AccountOrder[i])

\* After start_scheduler(): the start-up collection has been created.
ProcInit(n) ==
    /\ raised = {}
    /\ nAccounts = n
    /\ coll = [c \in Collections |->
                 IF c = "startup" THEN NewCollection(n) ELSE IdleCollection]
    /\ cleaning = FALSE
    /\ life = "serving"
    /\ conn = "open"

\* --------------------------------------------------------- specifications

\* The hub with its observers, every connector in its receive loop.
HubStart == HubInit(TRUE) /\ ConnLive /\ DbInit /\ ProcInit(1)

\* One observer joins while both connectors deliver events of the three kinds.
ReplayNext1 ==
    \/ Register("o1")
    \/ ReplayStep("o1")
    \/ ChannelClose("o1")
    \/ EndpointDisconnect("o1")
    \/ \E a \in Accounts : \E data \in HubBalanceEvents : OnBalanceUpdate(a, data)
    \/ \E a \in Accounts : \E data \in HubPositionEvents : OnPositionsUpdate(a, data)
    \/ \E a \in Accounts : \E data \in HubOrderEvents : OnOrdersUpdate(a, data)
    \/ \E a \in Accounts : BroadcastStep(a)

ReplaySpec == HubStart /\ [][ReplayNext1]_vars

\* Every observer joins and leaves while both connectors deliver balance events.
FanoutNext ==
    \/ \E o \in Observers : Register(o)
    \/ \E o \in Observers : ReplayStep(o)
    \/ \E o \in Observers : ChannelClose(o)
    \/ \E o \in Observers : EndpointDisconnect(o)
    \/ \E a \in Accounts : \E data \in HubBalanceEvents : OnBalanceUpdate(a, data)
    \/ \E a \in Accounts : BroadcastStep(a)

FanoutSpec == HubStart /\ [][FanoutNext]_vars

\* The connectors from start_okx_connections on; one observer attaches and
\* stays.
ConnStart == HubInit(FALSE) /\ ConnInit /\ DbInit /\ ProcInit(1)

SessionNext(a) ==
    \/ Start(a)
    \/ ConnectOk(a)
    \/ ConnectFail(a)
    \/ \E ack \in AckKinds : LoginAck(a, ack)
    \/ SubscribeDone(a)
    \/ TransportClose(a)
    \/ SessionClosed(a)
    \/ ReconnectTimer(a)
    \/ \E tag \in {"pong", "badjson", "event", "other"} : ReceiveIgnored(a, tag)

ConnNext ==
    \/ \E a \in Accounts : SessionNext(a)
    \/ \E a \in Accounts : Disconnect(a)
    \/ \E a \in Accounts : \E data \in HubBalanceEvents : OnBalanceUpdate(a, data)
    \/ \E a \in Accounts : BroadcastStep(a)
    \/ Register("o1")
    \/ ReplayStep("o1")

Spec == ConnStart /\ [][ConnNext]_vars

\* The connectors when disconnect() is never called and no observer attaches.
\* Every step of connect() that waits for nothing but the connector itself or a
\* timer is taken: websockets.connect ends by its open_timeout at the latest,
\* a send returns or raises, asyncio.sleep ends, a closed transport ends recv()
\* and "async for". What the upstream sends, and whether the transport closes,
\* is left to the environment.
FairNext ==
    \/ \E a \in Accounts : SessionNext(a)
    \/ \E a \in Accounts : \E data \in HubBalanceEvents : OnBalanceUpdate(a, data)

Fairness ==
    \A a \in Accounts :
        /\ WF_vars(Start(a))
        /\ WF_vars(ConnectOk(a) \/ ConnectFail(a))
        /\ WF_vars(SubscribeDone(a))
        /\ WF_vars(SessionClosed(a))
        /\ WF_vars(ReconnectTimer(a))

FairSpec == ConnStart /\ [][FairNext]_vars /\ Fairness

\* The connectors with their heartbeat tasks, disconnect() included; no
\* observer attaches.
HeartNext ==
    \/ \E a \in Accounts : SessionNext(a)
    \/ \E a \in Accounts : Disconnect(a)
    \/ \E a \in Accounts : PingStart(a)
    \/ \E a \in Accounts : PingTick(a)

HeartSpec == ConnStart /\ [][HeartNext]_vars

\* The connectors from start_okx_connections on with the three callbacks and
\* disconnect(); no observer attaches.
IsolNext ==
    \/ \E a \in Accounts : SessionNext(a)
    \/ \E a \in Accounts : Disconnect(a)
    \/ /\ SumOver(nEvents, Accounts) < MaxIsolEvents
       /\ \E a \in Accounts : \E data \in HubBalanceEvents : OnBalanceUpdate(a, data)
    \/ /\ SumOver(nEvents, Accounts) < MaxIsolEvents
       /\ \E a \in Accounts : \E data \in HubPositionEvents : OnPositionsUpdate(a, data)
    \/ /\ SumOver(nEvents, Accounts) < MaxIsolEvents
       /\ \E a \in Accounts : \E data \in HubOrderEvents : OnOrdersUpdate(a, data)

IsolSpec == ConnStart /\ [][IsolNext]_vars

\* Frames of every kind reach both connectors in LIVE, which can lose their
\* connection; no observer attached.
RouteNext ==
    \/ \E a \in Accounts : \E m \in Frames : Receive(a, m)
    \/ \E a \in Accounts : TransportClose(a)

\* Balance events of every shape reach both connectors, no observer attached.
ApplyStart == HubInit(FALSE) /\ ConnLive /\ DbInit /\ ProcInit(1)

ApplyNext ==
    \E a \in Accounts : \E data \in BalanceEvents \cup ScenarioEvents :
        OnBalanceUpdate(a, data)

ApplySpec == ApplyStart /\ [][ApplyNext]_vars

RouteSpec == ApplyStart /\ [][RouteNext]_vars

\* Positions events of every shape reach both connectors, no observer attached.
PosNext ==
    \E a \in Accounts : \E data \in PositionEvents : OnPositionsUpdate(a, data)

PosSpec == ApplyStart /\ [][PosNext]_vars

\* Orders events of every shape reach both connectors, no observer attached.
OrdNext ==
    \E a \in Accounts : \E data \in OrderEvents : OnOrdersUpdate(a, data)

OrdSpec == ApplyStart /\ [][OrdNext]_vars

\* Orders and positions events of every shape reach both connectors while one
\* observer joins.
PublishNext ==
    \/ Register("o1")
    \/ ReplayStep("o1")
    \/ \E a \in Accounts : BroadcastStep(a)
    \/ /\ SumOver(nEvents, Accounts) < MaxIsolEvents
       /\ \E a \in Accounts : \E data \in OrderEvents : OnOrdersUpdate(a, data)
    \/ /\ SumOver(nEvents, Accounts) < MaxIsolEvents
       /\ \E a \in Accounts : \E data \in PositionEvents : OnPositionsUpdate(a, data)

PublishSpec == ApplyStart /\ [][PublishNext]_vars

\* The sampler and its store.
DbStart == HubInit(FALSE) /\ ConnInit /\ DbInit /\ ProcInit(1)

SaveNext ==
    \/ \E t \in Tasks : \E a \in Accounts : CollectStart(t, a)
    \/ \E t \in Tasks : FetchFail(t)
    \/ \E t \in Tasks : \E balance \in FetchedBalances : FetchOk(t, balance)
    \/ \E t \in Tasks : InsertCurrency(t)
    \/ \E t \in Tasks : CommitSave(t)

\* Sampler tasks and retention cleanups as time passes.
DbNext ==
    \/ SaveNext
    \/ \E days \in RetentionChoices : CleanupDelete(days)
    \/ CleanupCommit
    \/ Tick

DbSpec == DbStart /\ [][DbNext]_vars

\* Sampler tasks while both connectors deliver balance events and one
\* observer joins.
SamplerNext ==
    \/ SaveNext
    \/ \E a \in Accounts : \E data \in HubBalanceEvents : OnBalanceUpdate(a, data)
    \/ \E a \in Accounts : BroadcastStep(a)
    \/ Register("o1")
    \/ ReplayStep("o1")

SamplerSpec == HubStart /\ [][SamplerNext]_vars

\* Sampler tasks and range reads on the shared connection within one minute.
ReadNext ==
    \/ SaveNext
    \/ \E a \in Accounts : ReadStart(a)
    \/ ReadCurrencies

ReadSpec == DbStart /\ [][ReadNext]_vars


\* One tick of the sampler after another: task t1 samples a1 and t2 samples a2,
\* and a save can fail after its summary row was written.
TickNext ==
    \/ CollectStart("t1", "a1")
    \/ CollectStart("t2", "a2")
    \/ \E t \in Tasks : FetchFail(t)
    \/ \E t \in Tasks : \E balance \in FetchedBalances : FetchOk(t, balance)
    \/ \E t \in Tasks : InsertCurrency(t)
    \/ \E t \in Tasks : InsertRaises(t)
    \/ \E t \in Tasks : CommitSave(t)
    \/ Tick

TickSpec == DbStart /\ [][TickNext]_vars

\* The scheduler's collections and the shutdown of the application, for every
\* number of configured accounts.
ProcStart ==
    HubInit(FALSE) /\ ConnLive /\ DbInit /\ \E n \in 1..MaxAccounts : ProcInit(n)

ProcNext ==
    \/ TickFire
    \/ \E c \in Collections : Acquire(c)
    \/ \E c \in Collections : \E ok \in BOOLEAN : FinishCollect(c, ok)
    \/ CleanupFire
    \/ CleanupDone
    \/ StopScheduler
    \/ CloseDb
    \/ \E i \in DOMAIN AccountOrder : StopConnector(i)

ProcSpec == ProcStart /\ [][ProcNext]_vars

\* ------------------------------------------------------------- properties

\* C1: every message an observer receives from a live broadcast comes after
\* every message of its replay: no live message is delivered to it before its
\* replay is finished.
C1_ReplayBeforeLive ==
    \A o \in Observers :
        \A i, j \in DOMAIN recv[o] :
            (recv[o][i].src = "live" /\ recv[o][j].src = "replay") => j < i

\* C2: when a broadcast pass ends in which a send failed, every observer
\* that was registered during the whole pass and whose send did not fail has
\* received the message of that pass.
C2_FailureSparesOthers ==
    [][\A a \in Accounts :
          (bc[a].on /\ ~bc'[a].on /\ bc[a].dead # <<>>)
              => (bc[a].stable \ SeqRange(bc[a].dead)) \subseteq bc[a].got]_vars

\* What the hub caches for one account.
CacheOf(a) ==
    <<IF DictHas(balances, a) THEN <<DictVal(balances, a)>> ELSE <<>>,
      IF DictHas(positions, a) THEN <<DictVal(positions, a)>> ELSE <<>>,
      IF DictHas(pending_orders, a) THEN <<DictVal(pending_orders, a)>> ELSE <<>>>>

WaitingStates == {"CONNECTING", "AUTHENTICATING", "SUBSCRIBING", "RECONNECT_WAIT"}

\* C4: when disconnect() is never called, no connector stays forever in one
\* state other than LIVE.
C4_NeverStuckOutsideLive ==
    \A a \in Accounts : \A st \in WaitingStates : []<>(pc[a] # st)

\* C5: once disconnect() was called on a connector, no merge callback is
\* invoked for it any more and it starts no further connection attempt.
C5_StopEndsActivity ==
    [][\A a \in Accounts :
          stopReq[a] => /\ nEvents'[a] = nEvents[a]
                        /\ (pc'[a] = "CONNECTING" => pc[a] = "CONNECTING")]_vars

\* C6: a connector is in STOPPED only if disconnect() was called on it.
C6_StoppedOnlyByDisconnect ==
    \A a \in Accounts : pc[a] = "STOPPED" => (stopReq[a] /\ ~running[a])

\* A connector stopped by disconnect() whose last session ended by a failure.
C6_Witness ==
    \E a \in Accounts : pc[a] = "STOPPED" /\ ended[a] = "error"

SameIdentity(x, y) == x.account_id = y.account_id /\ x.timestamp = y.timestamp

\* The currency rows a complete save of the snapshot makes under row id sid.
CurrencyRows(sid, snapshot) ==
    [i \in 1..Len(snapshot.currencies) |-> CurrencyRow(sid, snapshot.currencies[i])]

BeingWritten(sid) == \E t \in Tasks : task[t].pc = "rows" /\ task[t].sid = sid

\* C7: after saves of one (account_id, timestamp) there is one summary row of
\* that identity, it holds the values of the latest submission, its currency
\* rows (once its save has inserted them all) are exactly those of that
\* submission, and no currency row of a replaced or deleted summary row remains.
C7_SaveTwiceKeepsLater ==
    /\ \A r \in db.rows :
          /\ saved[r.id] # <<>>
          /\ \A q \in db.rows : SameIdentity(q, r) => q = r
          /\ \A i \in SnapshotIds :
                (saved[i] # <<>> /\ SameIdentity(saved[i][1], r)) => i <= r.id
          /\ r = SummaryRow(r.id, saved[r.id][1], r.created_at)
          /\ ~BeingWritten(r.id) => db.cur[r.id] = CurrencyRows(r.id, saved[r.id][1])
    /\ \A i \in SnapshotIds : (~\E r \in db.rows : r.id = i) => db.cur[i] = <<>>

\* Two completed and committed saves of one identity, the earlier one with
\* other values and more currencies than the later one.
C7_Witness ==
    /\ \A t \in Tasks : task[t].pc = "idle"
    /\ committed = db
    /\ \E r \in db.rows : \E i \in SnapshotIds :
          /\ i < r.id
          /\ saved[i] # <<>>
          /\ SameIdentity(saved[i][1], r)
          /\ saved[i][1].total_equity # r.total_equity
          /\ Len(saved[i][1].currencies) > Len(db.cur[r.id])

MsPerMinute == 60 * 1000

SameBucket(x, y) ==
    x.account_id = y.account_id /\ x.timestamp \div MsPerMinute = y.timestamp \div MsPerMinute

\* C8: in the connection's view of the store and in its committed state, no
\* two snapshot records have the same account and the same minute.
C8_OneRecordPerMinute ==
    \A tables \in {db, committed} :
        \A r, q \in tables.rows : SameBucket(r, q) => r = q

\* A committed record made by the second of two saves of one account at
\* different readings of the clock within the same minute.
C8_Witness ==
    \E r \in committed.rows : \E i \in SnapshotIds :
        /\ i < r.id
        /\ saved[i] # <<>>
        /\ SameBucket(saved[i][1], r)
        /\ saved[i][2] < saved[r.id][2]

\* C9: every summary row of the committed state has all the currency rows of
\* its submission and no others, and so has every record a range read
\* returned.
C9_SaveIsAtomic ==
    /\ \A r \in committed.rows :
          committed.cur[r.id] = CurrencyRows(r.id, saved[r.id][1])
    /\ \A k \in DOMAIN lastRead :
          LET id == lastRead[k].snapshot.id
          IN  lastRead[k].currencies = ByEqUsdDesc(CurrencyRows(id, saved[id][1]))

\* C10: the cached balance of an account is the balance built from the last
\* balance event applied to it: its scalar fields are that event's, and its
\* assets are the kept rows of that event's details, in order of equity.
C10_CacheIsLastEvent ==
    \A a \in Accounts :
        IF lastEvent[a] = <<>>
        THEN ~DictHas(balances, a)
        ELSE /\ DictHas(balances, a)
             /\ LET ev     == lastEvent[a][1]
                     cached == DictVal(balances, a)
                 IN  /\ cached = BalanceInfo(ev)
                     /\ cached.total_equity = safe_float(ev.totalEq)
                     /\ cached.unrealized_pnl = safe_float(ev.upl)
                     /\ Len(cached.assets) <= Len(ev.details)
                     /\ \A i \in DOMAIN cached.assets :
                           \E j \in DOMAIN ev.details :
                               cached.assets[i] = AssetOf(ev.details[j])

\* An account to which two or more balance events were applied, the last one
\* without a currency row, after which the cache holds no asset.
C10_Witness ==
    \E a \in Accounts :
        /\ lastEvent[a] # <<>>
        /\ lastEvent[a][2] >= 2
        /\ lastEvent[a][1].details = <<>>
        /\ DictVal(balances, a).assets = <<>>

\* The key of a positions item and of a cached position.
ItemKey(item) == <<StrDefault(item.instId, ""), StrDefault(item.posSide, "net")>>

PositionKey(position) == <<position.inst_id, position.pos_side>>

\* The item at i is the last one of its key in the event.
LastOfKey(data, i) == \A j \in (i + 1)..Len(data) : ItemKey(data[j]) # ItemKey(data[i])

\* C11: after a positions event is applied, a key whose item in the event has
\* size 0 is absent from the account's cached position set, every item of
\* nonzero size is present with the submitted field values, and every cached
\* position is an item of the event.
C11_ZeroSizeAbsent ==
    [][\A a \in Accounts : \A data \in PositionEvents :
          (OnPositionsUpdate(a, data) /\ ~PositionsRaise(data))
              => LET cached == DictVal(positions, a)'
                 IN  /\ \A i \in 1..Len(data) :
                           IF FloatDefault(data[i].pos) = 0
                           THEN LastOfKey(data, i)
                                   => ~\E k \in 1..Len(cached) :
                                          PositionKey(cached[k]) = ItemKey(data[i])
                           ELSE \E k \in 1..Len(cached) : cached[k] = PositionOf(data[i])
                     /\ \A k \in 1..Len(cached) :
                           \E i \in 1..Len(data) :
                               /\ FloatDefault(data[i].pos) # 0
                               /\ cached[k] = PositionOf(data[i])]_vars

\* The item at i is the last one of its order id in the event.
LastOfId(data, i) ==
    \A j \in (i + 1)..Len(data) :
        StrDefault(data[j].ordId, "") # StrDefault(data[i].ordId, "")

\* C12: after an orders event, the order id of an item whose status is not
\* pending (and that no later item of the event names again) is absent from
\* the account's pending-order table, whatever the other items are.
C12_TerminalOrderAbsent ==
    [][\A a \in Accounts : \A data \in OrderEvents :
          OnOrdersUpdate(a, data)
              => \A i \in 1..Len(data) :
                    (~OrderIsPending(data[i]) /\ LastOfId(data, i))
                        => ~DictHas(OrdersTable(a)', StrDefault(data[i].ordId, ""))]_vars

\* C13: every entry of every account's pending-order table has status live
\* or partially_filled and is stored under its own order_id.
C13_TableHoldsPendingOnly ==
    \A i \in DOMAIN pending_orders :
        \A j \in DOMAIN pending_orders[i].v :
            LET entry == pending_orders[i].v[j]
            IN  /\ entry.v.state \in {"live", "partially_filled"}
                /\ entry.k = entry.v.order_id

\* An account's table after two or more orders events, holding one partially
\* filled order.
C13_Witness ==
    \E a \in Accounts :
        /\ nEvents[a] >= 2
        /\ DictHas(pending_orders, a)
        /\ Len(DictVal(pending_orders, a)) = 1
        /\ DictVal(pending_orders, a)[1].v.state = "partially_filled"

\* The observers a step delivers a message of account a's pass to.
DeliveredTo(a) == IF bc'[a].on THEN bc'[a].got \ (IF bc[a].on THEN bc[a].got ELSE {}) ELSE {}

\* C14: a connector receives an event of its account only when the broadcast
\* pass of the account's previous event has ended, and every balance,
\* positions or pending_orders message delivered to an observer is the message
\* of the latest event the account's connector has received; so no observer
\* gets the message of an earlier event after that of a later one.
C14_PublishedInReceiveOrder ==
    [][\A a \in Accounts :
          /\ nEvents'[a] # nEvents[a] => ~bc[a].on
          /\ (DeliveredTo(a) # {} /\ bc'[a].msg.type # "error")
                => /\ bc'[a].seq = nEvents'[a]
                   /\ bc'[a].msg.account_id = a]_vars

\* The second event of an account being delivered to an observer that has
\* already received a live message.
C14_Witness ==
    \E a \in Accounts : \E o \in Observers :
        /\ bc[a].on
        /\ bc[a].seq >= 2
        /\ o \in bc[a].got
        /\ Len(recv[o]) >= 2
        /\ recv[o][Len(recv[o])].src = "live"
        /\ recv[o][Len(recv[o]) - 1].src = "live"
        /\ recv[o][Len(recv[o]) - 1].account_id = a

\* C15: a broadcast pass delivers its message exactly once to every observer
\* that is registered during the whole pass and whose send succeeds: a
\* successful send is never to an observer the pass has already served, and
\* when the pass ends every such observer has been served, whatever observers
\* registered or unregistered and whatever other pass ran meanwhile.
C15_ExactlyOncePerPass ==
    [][\A a \in Accounts :
          /\ (bc[a].on /\ bc'[a].on /\ bc'[a].idx = bc[a].idx + 1
                  /\ bc'[a].dead = bc[a].dead)
                => bc'[a].got # bc[a].got
          /\ (bc[a].on /\ ~bc'[a].on)
                => (bc[a].stable \ SeqRange(bc[a].dead)) \subseteq bc[a].got]_vars

\* C16 as stated: when a broadcast pass completes, no observer whose send
\* failed in it is in the active set and every observer whose send succeeded
\* in it is.
C16_FailedOutSucceededIn ==
    [][\A a \in Accounts :
          (bc[a].on /\ ~bc'[a].on)
              => /\ SeqRange(bc[a].dead) \cap SeqRange(clients') = {}
                 /\ bc[a].got \subseteq SeqRange(clients')]_vars

\* C16: the step that completes a broadcast pass, however many sends failed,
\* leaves no observer whose send failed in the active set and removes nobody
\* else: every other observer that was in the set is still in it, and no
\* observer is both served and failed by one pass.
C16_CleanupRemovesFailedOnly ==
    [][\A a \in Accounts :
          (bc[a].on /\ ~bc'[a].on)
              => /\ SeqRange(clients') = SeqRange(clients) \ SeqRange(bc[a].dead)
                 /\ bc[a].got \cap SeqRange(bc[a].dead) = {}]_vars

\* A pass about to complete in which one send failed and one succeeded.
C16_Witness ==
    \E a \in Accounts :
        /\ bc[a].on /\ bc[a].idx >= Len(clients)
        /\ Len(bc[a].dead) = 1 /\ bc[a].got # {}
        /\ bc[a].got \subseteq SeqRange(clients)

\* C17: a _collect_snapshot that fails, in its balance fetch or in its
\* snapshot write, leaves no sample of its account behind: no committed summary
\* row comes from a save_snapshot that raised; and the failure leaves the
\* collection of every other account where it was.
C17_FailureLeavesNoSample ==
    [][/\ \A r \in committed'.rows : r.id \notin raised'
       /\ \A t \in Tasks :
             (task[t].pc # "idle" /\ task'[t].pc = "idle" /\ committed' = committed)
                 => \A u \in Tasks \ {t} : task'[u] = task[u]]_vars

\* C18: at every moment at most MAX_CONCURRENT _collect_snapshot executions
\* are in flight, counted over the start-up collection and the scheduled tick
\* together, for every number of configured accounts.
C18_AtMostFiveInFlight == InFlight <= MAX_CONCURRENT

\* C19: close_db() runs only when no collection and no cleanup is in flight
\* and every connector has been told to stop; once it has run, no
\* _collect_snapshot writes a snapshot and the connection is not open again.
C19_DatabaseClosedLast ==
    [][/\ CloseDb => /\ \A c \in Collections : ~coll[c].on
                     /\ ~cleaning
                     /\ \A a \in Accounts : stopReq[a]
       /\ life = "db_closed"
             => /\ ~\E c \in Collections : FinishCollect(c, TRUE)
                /\ conn' = "closed"]_vars

\* C20: cleanup_old_snapshots(days) removes every summary row, of any account,
\* whose timestamp is below now - days, together with its currency rows, keeps
\* every record at or after that cutoff as it was, takes the number of summary
\* rows removed as its result, and its commit leaves no record below the
\* cutoff in the store.
C20_CleanupDeletesExpiredOnly ==
    [][/\ \A days \in RetentionChoices :
             CleanupDelete(days)
                 => LET cutoff == NowMs - days * 24 * 60 * 60 * 1000
                    IN  /\ db'.rows = {r \in db.rows : r.timestamp >= cutoff}
                        /\ \A r \in db.rows :
                              db'.cur[r.id] = IF r.timestamp >= cutoff THEN db.cur[r.id]
                                              ELSE <<>>
                        /\ cleaner'.deleted =
                              Cardinality({r \in db.rows : r.timestamp < cutoff})
       /\ CleanupCommit
             => \A r \in committed'.rows : r.timestamp >= cleaner.cutoff]_vars

\* A cleanup has deleted a record with its currency rows and kept another,
\* of the other account; its commit is next.
C20_Witness ==
    /\ cleaner.pc = "commit"
    /\ cleaner.deleted = 1
    /\ \E r \in committed.rows :
          /\ r.timestamp < cleaner.cutoff
          /\ committed.cur[r.id] # <<>>
          /\ \E q \in db.rows : q.account_id # r.account_id /\ db.cur[q.id] # <<>>

\* C21: after disconnect(observer) the observer is not in the active set and
\* the other observers are where they were; for an observer that is not in the
\* set (never registered, or already removed by a broadcast's clean-up or an
\* earlier call) the set is unchanged, and so it is by a repeated call.
C21_UnregisterIdempotent ==
    [][\A o \in Observers :
          EndpointDisconnect(o)
              => /\ o \notin SeqRange(clients')
                 /\ clients' = SelectSeq(clients, LAMBDA x : x # o)
                 /\ (o \notin SeqRange(clients) => clients' = clients)
                 /\ Unregister(clients', o) = clients'
                 /\ \A x \in Observers \ SeqRange(clients) :
                       Unregister(clients, x) = clients]_vars

\* One endpoint has called disconnect(); the other, whose observer a
\* broadcast's clean-up has already removed, is about to.
C21_Witness ==
    \E o, p \in Observers :
        /\ o # p
        /\ rp[o].ph = 6 /\ o \notin SeqRange(clients)
        /\ rp[p].ph = 4 /\ chan[p] = "closed" /\ p \notin SeqRange(clients)
        /\ \E q \in Observers : Len(recv[q]) > 0

\* C22: a step of connect() for an observer, its registration or a later send
\* of its replay, delivers nothing to any other observer, sends the observer
\* itself nothing but replay messages, and leaves the cached balances,
\* positions and pending orders of every account as they were.
C22_RegisterTouchesOnlyItsObserver ==
    [][\A o \in Observers :
          (Register(o) \/ ReplayStep(o))
              => /\ \A x \in Observers \ {o} : recv'[x] = recv[x]
                 /\ \/ recv'[o] = recv[o]
                    \/ /\ Len(recv'[o]) = Len(recv[o]) + 1
                       /\ SubSeq(recv'[o], 1, Len(recv[o])) = recv[o]
                       /\ recv'[o][Len(recv'[o])].src = "replay"
                 /\ balances' = balances
                 /\ positions' = positions
                 /\ pending_orders' = pending_orders]_vars

\* An observer has received a replay message while another observer,
\* registered before it, is in its receive loop.
C22_Witness ==
    \E o, x \in Observers :
        /\ o # x
        /\ Len(clients) = 2 /\ clients[1] = x /\ clients[2] = o
        /\ rp[x].ph = 4
        /\ Len(recv[o]) > 0
        /\ recv[o][Len(recv[o])].src = "replay"

\* C23: after the balance event of the scenario (USDT row with available 8000,
\* frozen 500 and equity 10000.5, BTC row worth 25000 in the quote currency)
\* the cached assets are BTC, USDT in this order and the cached total_equity
\* is the top-level 10000.5.
C23_ScenarioBtcFirst ==
    [][\A a \in Accounts : \A data \in ScenarioEvents :
          OnBalanceUpdate(a, data)
              => LET cached == DictVal(balances, a)'
                 IN  /\ cached.total_equity = FloatOf("10000.5")
                     /\ cached.available = FloatOf("8000")
                     /\ cached.frozen = FloatOf("500")
                     /\ Len(cached.assets) = 2
                     /\ cached.assets[1].ccy = "BTC"
                     /\ cached.assets[2].ccy = "USDT"]_vars

\* Millisecond timestamps around the ends of a second and of a minute, the
\* clock's reading, and the reading and the bucket of every save so far.
AlignInputs ==
    {0, 1, 999, 1000, 59999, 60000, 60001, 61000, 119999, 120000, 86399999}
        \cup {NowMs}
        \cup UNION {{saved[i][1].timestamp, saved[i][2]} : i \in {k \in SnapshotIds : saved[k] # <<>>}}

\* C24: for a timestamp ts >= 0 in milliseconds, _align_to_minute(ts) is a
\* multiple of 60000, is at most ts and less than 60000 below it, and is
\* unchanged by aligning again; two timestamps of the same minute get the same
\* value, and every snapshot saved carries the aligned reading of the clock.
C24_AlignToMinute ==
    /\ \A ts \in AlignInputs :
          LET aligned == _align_to_minute(ts)
          IN  /\ aligned % 60000 = 0
              /\ aligned <= ts
              /\ ts - aligned < 60000
              /\ _align_to_minute(aligned) = aligned
    /\ \A ts, other \in AlignInputs :
          (ts \div 60000 = other \div 60000)
              => _align_to_minute(ts) = _align_to_minute(other)
    /\ \A i \in SnapshotIds :
          saved[i] # <<>> => saved[i][1].timestamp = _align_to_minute(saved[i][2])

\* Two saves at different readings of the clock in one minute, the later one
\* off the start of the minute, with the same timestamp.
C24_Witness ==
    \E i, j \in SnapshotIds :
        /\ saved[i] # <<>> /\ saved[j] # <<>>
        /\ saved[i][2] < saved[j][2]
        /\ saved[j][2] % 60000 # 0
        /\ saved[i][1].timestamp = saved[j][1].timestamp

\* C25: an orders message received in LIVE whose payload has an item the
\* handler cannot convert is dropped: the connector stays in LIVE on the same
\* connection and the account's cached balance, positions and pending orders
\* are what they were before the message.
C25_MalformedDropped ==
    [][\A a \in Accounts : \A data \in OrderEvents :
          (OnOrdersUpdate(a, data) /\ ApplyOrders(OrdersTable(a), data).raised)
              => /\ pc'[a] \in {"LIVE", "LIVE_ERROR"}
                 /\ ws'[a] = ws[a]
                 /\ balances' = balances
                 /\ positions' = positions
                 /\ OrdersTable(a)' = OrdersTable(a)]_vars

\* C26: a positions event with a missing, empty or non-numeric value in a
\* numeric field is still applied: after it the account has a cached positions
\* list, and every item of the event whose size is a nonzero number is in it.
C26_NumericDefaultsNeverAbort ==
    [][\A a \in Accounts : \A data \in PositionEvents :
          OnPositionsUpdate(a, data)
              => /\ DictHas(positions', a)
                 /\ \A i \in 1..Len(data) :
                       (~FloatDefaultRaises(data[i].pos) /\ FloatDefault(data[i].pos) # 0)
                           => \E k \in 1..Len(DictVal(positions', a)) :
                                 PositionKey(DictVal(positions', a)[k]) = ItemKey(data[i])]_vars

\* C27: a login acknowledgment that carries an error event or a code other
\* than success takes the connector from AUTHENTICATING to RECONNECT_WAIT,
\* with no subscription; and a connector in AUTHENTICATING always leaves it
\* eventually, also when no acknowledgment ever arrives.
C27_LoginFailsOrTimesOut ==
    /\ [][\A a \in Accounts : \A ack \in AckKinds :
             (LoginAck(a, ack) /\ LoginRejected(ack)) => pc'[a] = "RECONNECT_WAIT"]_vars
    /\ \A a \in Accounts : (pc[a] = "AUTHENTICATING") ~> (pc[a] # "AUTHENTICATING")

\* Where connect() is while it is in the receive loop of a session.
LiveStates == {"LIVE", "LIVE_MERGE", "LIVE_ERROR"}

\* C28: the heartbeat tasks of a connector that have not finished number at
\* most one, there is one only while connect() is in the receive loop of a
\* session (LIVE, a callback of it included), and every "ping" was written
\* while the connector was in that loop: once a session has ended, by closure,
\* error or disconnect(), its heartbeat is gone and writes nothing.
C28_HeartbeatOnlyWhileLive ==
    \A a \in Accounts :
        /\ hb[a].created + hb[a].asleep <= 1
        /\ (hb[a].created + hb[a].asleep > 0) => pc[a] \in LiveStates
        /\ hb[a].sent \in {"none"} \cup LiveStates

\* A session that wrote a heartbeat has ended by closure and its connector
\* waits to reconnect, and another one was stopped while LIVE.
C28_Witness ==
    /\ pc["a1"] = "RECONNECT_WAIT" /\ ended["a1"] = "closed_live"
    /\ hb["a1"].sent = "LIVE" /\ hb["a1"].asleep = 0
    /\ pc["a2"] = "STOPPED" /\ ended["a2"] = "closed_live" /\ hb["a2"].sent = "LIVE"

\* What the manager caches for one account, and the state of its connector.
CachedOf(b) ==
    <<IF DictHas(balances, b) THEN <<DictVal(balances, b)>> ELSE <<>>,
      IF DictHas(positions, b) THEN <<DictVal(positions, b)>> ELSE <<>>,
      IF DictHas(pending_orders, b) THEN <<DictVal(pending_orders, b)>> ELSE <<>>>>

ConnectorOf(b) == <<pc[b], running[b], ws[b], selfWs[b], stopReq[b], ended[b], hb[b]>>

\* C29: a step that changes the state of one account's connector without
\* running a callback (a connection failure, a login rejection, a closure, the
\* end of a session, a reconnect, a stop) leaves the connector of every other
\* account and the cached balance, positions and pending orders of every
\* account as they were; a balance, positions or orders callback for one
\* account leaves what is cached for every other account, and its connector,
\* as they were.
C29_AccountsIsolated ==
    [][\A a \in Accounts :
         /\ (ConnectorOf(a)' # ConnectorOf(a) /\ nEvents' = nEvents)
                => /\ \A b \in Accounts : CachedOf(b)' = CachedOf(b)
                   /\ \A b \in Accounts \ {a} : ConnectorOf(b)' = ConnectorOf(b)
         /\ (nEvents'[a] # nEvents[a])
                => \A b \in Accounts \ {a} :
                       CachedOf(b)' = CachedOf(b) /\ ConnectorOf(b)' = ConnectorOf(b)]_vars

\* One connector was stopped and its session ended while the other is LIVE,
\* with a balance cached for the first and pending orders for the other.
C29_Witness ==
    /\ pc["a1"] = "STOPPED" /\ stopReq["a1"] /\ ended["a1"] = "closed_live"
    /\ pc["a2"] = "LIVE" /\ ended["a2"] = "error"
    /\ DictHas(balances, "a1")
    /\ DictHas(pending_orders, "a2")

\* C30: every step by which a session of a running connector fails (the
\* connection attempt fails, the login is rejected, the transport is found
\* closed) starts, when an observer is registered, the broadcast of an
\* error message that carries the account's id; the connector reaches its
\* reconnect delay, and so its next attempt, only after that broadcast.
C30_FailurePublishesError ==
    [][\A a \in Accounts :
         (/\ pc[a] \in {"CONNECTING", "AUTHENTICATING", "SUBSCRIBING", "LIVE"}
          /\ pc'[a] \in {"FAILED", "RECONNECT_WAIT"}
          /\ clients # <<>>)
            => /\ pc'[a] = "FAILED"
               /\ bc'[a].on
               /\ bc'[a].msg.type = "error"
               /\ bc'[a].msg.account_id = a]_vars

\* C31: an orders callback for an account is all or nothing for the operations
\* that come after it on that account (the next callback, the read of a
\* replay): when it has run, the account's table is the table with the whole
\* event applied, or the table as it was, never the table with a part of the
\* event applied; and the tables of the other accounts are as they were.
C31_NoPartiallyAppliedState ==
    [][\A a \in Accounts : \A data \in OrderEvents :
          OnOrdersUpdate(a, data)
              => /\ \/ ~ApplyOrders(OrdersTable(a), data).raised
                    \/ OrdersTable(a)' = OrdersTable(a)
                 /\ \A b \in Accounts \ {a} : OrdersTable(b)' = OrdersTable(b)]_vars

\* C32: a frame handled in LIVE that is a pong or carries an event field
\* changes nothing: no callback runs; a data message of channel account,
\* positions or orders runs one callback, for the connector's own account and
\* of the kind of the channel (one more event counted for that account alone,
\* that account's entry of that kind's cache written, the other two caches
\* untouched); a message of another channel changes nothing.
C32_RoutesByChannel ==
    [][\A a \in Accounts : \A m \in Frames :
          Receive(a, m)
              => LET data == m.text = "json" /\ ~m.event
                     none == ~data \/ m.channel \notin {"account", "positions", "orders"}
                 IN  /\ none => UNCHANGED vars
                     /\ ~none => /\ nEvents' = [nEvents EXCEPT ![a] = @ + 1]
                                 /\ \A b \in Accounts \ {a} : CachedOf(b)' = CachedOf(b)
                     /\ (data /\ m.channel = "account")
                           => /\ DictHas(balances', a) /\ lastEvent'[a] # lastEvent[a]
                              /\ positions' = positions /\ pending_orders' = pending_orders
                     /\ (data /\ m.channel = "positions")
                           => /\ DictHas(positions', a)
                              /\ balances' = balances /\ pending_orders' = pending_orders
                              /\ lastEvent' = lastEvent
                     /\ (data /\ m.channel = "orders")
                           => /\ DictHas(pending_orders', a)
                              /\ balances' = balances /\ positions' = positions
                              /\ lastEvent' = lastEvent]_vars

\* Each connector has handled data messages: a1 one of the account channel
\* and one of the orders channel, a2 one of the positions channel.
C32_Witness ==
    /\ nEvents["a1"] = 2 /\ nEvents["a2"] = 1
    /\ DictHas(balances, "a1") /\ DictHas(pending_orders, "a1") /\ DictHas(positions, "a2")
    /\ ~DictHas(positions, "a1") /\ ~DictHas(balances, "a2") /\ ~DictHas(pending_orders, "a2")

\* C33: a connector enters AUTHENTICATING only from CONNECTING, SUBSCRIBING
\* only from AUTHENTICATING by a login acknowledgment that is not a rejection,
\* and LIVE only from SUBSCRIBING, each time on the connection opened in
\* CONNECTING; and a callback runs for an account only when its connector is
\* in LIVE, that is after the subscribe request of the session was sent.
C33_SessionOrder ==
    [][\A a \in Accounts :
          /\ (pc'[a] = "AUTHENTICATING" /\ pc[a] # "AUTHENTICATING")
                => pc[a] = "CONNECTING" /\ ws'[a] = "open"
          /\ (pc'[a] = "SUBSCRIBING" /\ pc[a] # "SUBSCRIBING")
                => /\ pc[a] = "AUTHENTICATING" /\ ws[a] = "open" /\ ws'[a] = "open"
                   /\ \E ack \in AckKinds : ~LoginRejected(ack) /\ LoginAck(a, ack)
          /\ (pc'[a] \in LiveStates /\ pc[a] \notin LiveStates)
                => pc[a] = "SUBSCRIBING" /\ ws[a] = "open" /\ ws'[a] = "open"
          /\ (pc'[a] = "CONNECTING" /\ pc[a] # "CONNECTING")
                => pc[a] \in {"DISCONNECTED", "RECONNECT_WAIT"}
          /\ (nEvents'[a] # nEvents[a]) => pc[a] = "LIVE" /\ ws[a] = "open"]_vars

\* A connector is LIVE in a later session, after a session that had reached
\* LIVE was closed, and callbacks have run for it.
C33_Witness ==
    /\ pc["a1"] = "LIVE" /\ ended["a1"] = "closed_live" /\ nEvents["a1"] = MaxIsolEvents
    /\ pc["a2"] = "SUBSCRIBING" /\ ended["a2"] = "error"

\* C34: after a balance event with an account record is applied, the cached
\* assets list has one entry for each currency row of the event whose balance
\* or equity is not zero and none for a row where both are zero, and the
\* equity of the entries does not increase along the list.
C34_NonzeroRowsKeptSorted ==
    [][\A a \in Accounts : \A data \in BalanceEvents \cup ScenarioEvents :
          (OnBalanceUpdate(a, data) /\ data # <<>>)
              => LET rows   == data[1].details
                     assets == DictVal(balances', a).assets
                     kept   == {i \in 1..Len(rows) :
                                   safe_float(rows[i].cashBal) # 0 \/ safe_float(rows[i].eq) # 0}
                 IN  /\ Len(assets) = Cardinality(kept)
                     /\ \A i \in kept : \E k \in 1..Len(assets) :
                           /\ assets[k].ccy = rows[i].ccy
                           /\ assets[k].eq = safe_float(rows[i].eq)
                     /\ \A k \in 1..(Len(assets) - 1) : assets[k].eq >= assets[k + 1].eq]_vars

\* C35: in every state the positions cached for an account hold at most one
\* entry for each pair of instrument and side.
C35_OneEntryPerKey ==
    \A a \in Accounts :
        DictHas(positions, a)
            => LET l == DictVal(positions, a)
               IN  \A i, j \in 1..Len(l) :
                       PositionKey(l[i]) = PositionKey(l[j]) => i = j

\* C36: what a save_snapshot that raised after its summary INSERT has written
\* never becomes durable: in every state the committed tables hold neither the
\* summary row of such a save nor a currency row of it, whatever commits the
\* saves of other accounts have issued since.
C36_FailedSaveNotDurable ==
    \A sid \in raised :
        /\ ~ParentExists(committed, sid)
        /\ committed.cur[sid] = <<>>

\* C37: every step of a collection (the start of a _collect_snapshot, its
\* balance fetch, each statement and the commit of its save_snapshot) leaves
\* the cached balances, positions and pending orders, the list of observers,
\* what every observer has received and every connector as they were.
C37_SamplerLeavesHubAlone ==
    [][(task' # task \/ db' # db \/ committed' # committed \/ nextId' # nextId)
          => UNCHANGED <<hubVars, connVars>>]_vars

\* A snapshot of a1 is committed while the hub has a balance cached for a1,
\* an observer is registered and has received a message.
C37_Witness ==
    /\ \E r \in committed.rows : r.account_id = "a1"
    /\ DictHas(balances, "a1")
    /\ clients = <<"o1">> /\ recv["o1"] # <<>>
    /\ pc["a1"] = "LIVE"

\* C38: with an observer registered, a positions or orders callback that
\* changes what is cached for its account starts the broadcast of a message
\* of that kind for that account whose payload is the new cached value, also
\* when the callback ends with an exception: no change stays in the cache
\* without having been published.
C38_CacheChangeIsPublished ==
    [][\A a \in Accounts :
          /\ \A data \in OrderEvents :
                (OnOrdersUpdate(a, data) /\ clients # <<>>
                   /\ OrdersTable(a)' # OrdersTable(a))
                    => /\ bc'[a].msg.type = "pending_orders"
                       /\ bc'[a].msg.account_id = a
                       /\ bc'[a].msg.data = DictValues(OrdersTable(a)')
          /\ \A data \in PositionEvents :
                (OnPositionsUpdate(a, data) /\ clients # <<>> /\ positions' # positions)
                    => /\ bc'[a].msg.type = "positions"
                       /\ bc'[a].msg.account_id = a
                       /\ bc'[a].msg.data = DictVal(positions', a)]_vars

\* C39: in the tables as the connection sees them and in the tables as of the
\* last commit, every currency row is stored under the id of a summary row
\* that exists and carries that id as its snapshot_id, after replacing saves
\* and after cleanups alike.
C39_NoOrphanCurrencyRows ==
    \A tables \in {db, committed} : \A sid \in SnapshotIds :
        tables.cur[sid] # <<>>
            => /\ ParentExists(tables, sid)
               /\ \A i \in 1..Len(tables.cur[sid]) : tables.cur[sid][i].snapshot_id = sid

\* The summary row of the first save is gone, replaced or cleaned up, and the
\* committed tables hold a later summary row with its currency rows.
C39_Witness ==
    /\ saved[1] # <<>> /\ ~ParentExists(committed, 1) /\ ~ParentExists(db, 1)
    /\ ParentExists(committed, 2) /\ committed.cur[2] # <<>>

====
